---- MODULE Spec2Model ----
(***************************************************************************)
(* Model of the console inventory utility (src/main.go): the menu loop and *)
(* the Filter, Update, Insert and InsertRelated operations, with the SQL   *)
(* text each one builds and the parameter list it binds.                   *)
(*                                                                         *)
(* A line of console input is a sequence of one-character strings; the     *)
(* two Cyrillic sample characters are written by their code points.  SQL   *)
(* text is a sequence of tokens (keyword, catalog name, $N placeholder, or *)
(* interpolated text), so that the shape of a statement can be inspected.  *)
(***************************************************************************)
EXTENDS Integers, Sequences, FiniteSets, TLC

\* Largest count (filters, ids, records) the operator asks for in one operation.
MaxCount == 2

\* How many times one call of viewTable may go round its loop again, after a
\* bad table number or a failed query.
MaxViewRetries == 1

----------------------------------------------------------------------------
\* Characters

LatinLetters ==
    { "a", "b", "c", "d", "e", "f", "g", "h", "i", "j", "k", "l", "m", "n", "o", "p",
       "q", "r", "s", "t", "u", "v", "w", "x", "y", "z", "A", "B", "C", "D", "E", "F",
       "G", "H", "I", "J", "K", "L", "M", "N", "O", "P", "Q", "R", "S", "T", "U", "V",
       "W", "X", "Y", "Z" }
\* U+0430..U+044F and U+0410..U+042F, then the two forms of io.
CyrillicLetters ==
    { "U+0430", "U+0431", "U+0432", "U+0433", "U+0434", "U+0435", "U+0436", "U+0437",
       "U+0438", "U+0439", "U+043A", "U+043B", "U+043C", "U+043D", "U+043E", "U+043F",
       "U+0440", "U+0441", "U+0442", "U+0443", "U+0444", "U+0445", "U+0446", "U+0447",
       "U+0448", "U+0449", "U+044A", "U+044B", "U+044C", "U+044D", "U+044E", "U+044F",
       "U+0410", "U+0411", "U+0412", "U+0413", "U+0414", "U+0415", "U+0416", "U+0417",
       "U+0418", "U+0419", "U+041A", "U+041B", "U+041C", "U+041D", "U+041E", "U+041F",
       "U+0420", "U+0421", "U+0422", "U+0423", "U+0424", "U+0425", "U+0426", "U+0427",
       "U+0428", "U+0429", "U+042A", "U+042B", "U+042C", "U+042D", "U+042E", "U+042F",
       "U+0451", "U+0401" }
Digits == {"0", "1", "2", "3", "4", "5", "6", "7", "8", "9"}
\* Go's \s class and what strings.TrimSpace strips, among the sample characters.
SpaceChars == {" ", "\t", "\n"}
OtherChars == {";", "'", "+", "=", "_"}

\* The capital letters and, at the same place, their small forms.
UpperCase ==
    << "A", "B", "C", "D", "E", "F", "G", "H", "I", "J", "K", "L", "M", "N", "O", "P",
       "Q", "R", "S", "T", "U", "V", "W", "X", "Y", "Z", "U+0410", "U+0411", "U+0412",
       "U+0413", "U+0414", "U+0415", "U+0416", "U+0417", "U+0418", "U+0419", "U+041A",
       "U+041B", "U+041C", "U+041D", "U+041E", "U+041F", "U+0420", "U+0421", "U+0422",
       "U+0423", "U+0424", "U+0425", "U+0426", "U+0427", "U+0428", "U+0429", "U+042A",
       "U+042B", "U+042C", "U+042D", "U+042E", "U+042F", "U+0401" >>
LowerCase ==
    << "a", "b", "c", "d", "e", "f", "g", "h", "i", "j", "k", "l", "m", "n", "o", "p",
       "q", "r", "s", "t", "u", "v", "w", "x", "y", "z", "U+0430", "U+0431", "U+0432",
       "U+0433", "U+0434", "U+0435", "U+0436", "U+0437", "U+0438", "U+0439", "U+043A",
       "U+043B", "U+043C", "U+043D", "U+043E", "U+043F", "U+0440", "U+0441", "U+0442",
       "U+0443", "U+0444", "U+0445", "U+0446", "U+0447", "U+0448", "U+0449", "U+044A",
       "U+044B", "U+044C", "U+044D", "U+044E", "U+044F", "U+0451" >>

\* The small form of each capital letter.
SmallForm ==
    [c \in { UpperCase[k] : k \in 1..Len(UpperCase) } |->
        LowerCase[CHOOSE k \in 1..Len(UpperCase) : UpperCase[k] = c]]

\* strings.ToLower, one character and a whole text.
ToLowerChar(c) == IF c \in DOMAIN SmallForm THEN SmallForm[c] ELSE c

ToLower(s) == [k \in 1..Len(s) |-> ToLowerChar(s[k])]

\* One character of the class [a-zA-Z<cyrillic>0-9\s\-\.] of whiteListRegex.
WhiteListChar(c) ==
    c \in LatinLetters \cup CyrillicLetters \cup Digits \cup SpaceChars \cup {"-", "."}

\* The pattern without its anchors: some character of the class anywhere.
WhiteListMatchUnanchored(s) == \E k \in 1..Len(s) : WhiteListChar(s[k])

\* whiteListRegex.MatchString(s) for ^[...]+$ : one or more characters, all of the class.
WhiteListMatch(s) ==
    /\ Len(s) >= 1
    /\ \A k \in 1..Len(s) : WhiteListChar(s[k])

RECURSIVE TrimLeft(_)
TrimLeft(s) ==
    IF s # <<>> /\ Head(s) \in SpaceChars THEN TrimLeft(Tail(s)) ELSE s

RECURSIVE TrimRight(_)
TrimRight(s) ==
    IF s # <<>> /\ s[Len(s)] \in SpaceChars
    THEN TrimRight(SubSeq(s, 1, Len(s) - 1))
    ELSE s

\* strings.TrimSpace
TrimSpace(s) == TrimRight(TrimLeft(s))

\* reader.ReadString('\n') followed by strings.TrimSpace: the line read carries
\* its delimiter, which the trim removes with the other surrounding white space.
ReadLine(line) == TrimSpace(line \o <<"\n">>)

DigitVal(c) ==
    CASE c = "0" -> 0 [] c = "1" -> 1 [] c = "2" -> 2 [] c = "3" -> 3
      [] c = "4" -> 4 [] c = "5" -> 5 [] c = "6" -> 6 [] c = "7" -> 7
      [] c = "8" -> 8 [] c = "9" -> 9

RECURSIVE DigitsValue(_)
DigitsValue(s) ==
    IF s = <<>> THEN 0
    ELSE 10 * DigitsValue(SubSeq(s, 1, Len(s) - 1)) + DigitVal(s[Len(s)])

\* strconv.Atoi: an optional sign, then one or more decimal digits and nothing
\* else.  err is TRUE when the text does not parse; n is the value otherwise.
Atoi(s) ==
    LET signed == s # <<>> /\ Head(s) \in {"+", "-"}
        body   == IF signed THEN Tail(s) ELSE s
        ok     == body # <<>> /\ \A k \in 1..Len(body) : body[k] \in Digits
    IN  IF ~ok THEN [err |-> TRUE, n |-> 0]
        ELSE [err |-> FALSE,
              n   |-> IF signed /\ Head(s) = "-" THEN 0 - DigitsValue(body)
                      ELSE DigitsValue(body)]

\* fmt's %d of a small non-negative number, as typed text.
Itoa(n) ==
    CASE n = 0 -> <<"0">> [] n = 1 -> <<"1">> [] n = 2 -> <<"2">> [] n = 3 -> <<"3">>
      [] n = 4 -> <<"4">> [] n = 5 -> <<"5">> [] n = 6 -> <<"6">> [] n = 7 -> <<"7">>
      [] n = 8 -> <<"8">> [] n = 9 -> <<"9">>

----------------------------------------------------------------------------
\* Static catalog

tables ==
    << [Name |-> "categories",    Columns |-> <<"id", "name", "description">>],
       [Name |-> "manufacturers", Columns |-> <<"id", "name", "country", "founded_year">>],
       [Name |-> "components",    Columns |-> <<"id", "name", "category_id",
                                                "manufacturer_id", "model", "price">>],
       [Name |-> "stock",         Columns |-> <<"id", "component_id", "quantity",
                                                "warehouse_location">>] >>

\* Each relation string, as the pieces around its separator (the conjunction
\* between the two table names, with its surrounding blanks).
RelationSeparator == " i "
relatedTables ==
    << <<"components", RelationSeparator, "stock">>,
       <<"categories", RelationSeparator, "components">>,
       <<"manufacturers", RelationSeparator, "components">> >>

\* The zero value of TableInfo.
NoTable == [Name |-> "", Columns |-> <<>>]

\* The letters of a table or column name, for substring tests and for printing.
Spell(name) ==
    CASE name = "categories"    -> <<"c","a","t","e","g","o","r","i","e","s">>
      [] name = "manufacturers" -> <<"m","a","n","u","f","a","c","t","u","r","e","r","s">>
      [] name = "components"    -> <<"c","o","m","p","o","n","e","n","t","s">>
      [] name = "stock"         -> <<"s","t","o","c","k">>
      [] name = "id"            -> <<"i","d">>
      [] name = "name"          -> <<"n","a","m","e">>
      [] name = "description"   -> <<"d","e","s","c","r","i","p","t","i","o","n">>
      [] name = "country"       -> <<"c","o","u","n","t","r","y">>
      [] name = "founded_year"  -> <<"f","o","u","n","d","e","d","_","y","e","a","r">>
      [] name = "category_id"   -> <<"c","a","t","e","g","o","r","y","_","i","d">>
      [] name = "manufacturer_id" ->
             <<"m","a","n","u","f","a","c","t","u","r","e","r","_","i","d">>
      [] name = "model"         -> <<"m","o","d","e","l">>
      [] name = "price"         -> <<"p","r","i","c","e">>
      [] name = "component_id"  -> <<"c","o","m","p","o","n","e","n","t","_","i","d">>
      [] name = "quantity"      -> <<"q","u","a","n","t","i","t","y">>
      [] name = "warehouse_location" ->
             <<"w","a","r","e","h","o","u","s","e","_","l","o","c","a","t","i","o","n">>
      [] OTHER                  -> <<>>

\* strings.Contains(s, sub) on spelled names.
Contains(s, sub) ==
    \E k \in 0..(Len(s) - Len(sub)) : SubSeq(s, k + 1, k + Len(sub)) = sub

\* strings.Split(relation, separator) on the pieces of a relation string: the
\* fields are the pieces between separators (no relation string has two
\* separators in a row, so no field is empty).
Split(pieces, sep) == SelectSeq(pieces, LAMBDA p : p # sep)

\* The lookup loop over tables: the last descriptor with that name, or the
\* zero value.
RECURSIVE FindTable(_, _, _)
FindTable(name, k, found) ==
    IF k > Len(tables) THEN found
    ELSE FindTable(name, k + 1, IF tables[k].Name = name THEN tables[k] ELSE found)

----------------------------------------------------------------------------
\* SQL text and parameters

Kw(word)   == [k |-> "kw",   name |-> word, n |-> 0, text |-> <<>>]
Nm(name)   == [k |-> "name", name |-> name, n |-> 0, text |-> <<>>]
Ph(n)      == [k |-> "ph",   name |-> "$",  n |-> n, text |-> <<>>]
Txt(value) == [k |-> "text", name |-> "",   n |-> 0, text |-> value]

\* A bound parameter: typed text, or the integer id read back from the database.
StrArg(value) == [t |-> "string", s |-> value, n |-> 0]
IntArg(n) == [t |-> "int",    s |-> <<>>,  n |-> n]

\* strings.Join on token sequences.
RECURSIVE Join(_, _)
Join(parts, sep) ==
    IF parts = <<>> THEN <<>>
    ELSE IF Len(parts) = 1 THEN parts[1]
    ELSE parts[1] \o sep \o Join(Tail(parts), sep)

Names(columns) == [c \in 1..Len(columns) |-> << Nm(columns[c]) >>]

\* The placeholders numbered from the loop index itself: $0, $1, ...
PlaceholdersFromZero(n) == [j \in 1..n |-> << Ph(j - 1) >>]

\* placeholders[j] = fmt.Sprintf("$%d", j+1)
Placeholders(n) == [j \in 1..n |-> << Ph(j) >>]

\* The column list of an INSERT that does not skip index 0.
InsertColumnsWithId(table) == table.Columns

\* table.Columns[1:]
InsertColumns(table) == Tail(table.Columns)

\* fmt.Sprintf("%s = $%d", columnName, i+1)
FilterCondition(columnName, i) == << Nm(columnName), Kw("="), Ph(i + 1) >>

\* The filter statement with its conditions joined by OR.
FilterQueryOr(table, conditions) ==
    << Kw("SELECT"), Kw("*"), Kw("FROM"), Nm(table.Name), Kw("WHERE") >>
        \o Join(conditions, << Kw("OR") >>)
        \o << Kw("ORDER BY"), Kw("id") >>

\* "SELECT * FROM %s WHERE %s ORDER BY id" with the conditions joined by AND
FilterQuery(table, conditions) ==
    << Kw("SELECT"), Kw("*"), Kw("FROM"), Nm(table.Name), Kw("WHERE") >>
        \o Join(conditions, << Kw("AND") >>)
        \o << Kw("ORDER BY"), Kw("id") >>

\* "SELECT * FROM %s ORDER BY id"
ViewQuery(tableName) ==
    << Kw("SELECT"), Kw("*"), Kw("FROM"), Nm(tableName), Kw("ORDER BY"), Kw("id") >>

\* The UPDATE statement with the ids written into the text of the IN list.
UpdateQueryInlineIds(table, columnName, updateCount, ids) ==
    << Kw("UPDATE"), Nm(table.Name), Kw("SET"), Nm(columnName), Kw("="), Ph(1),
       Kw("WHERE"), Kw("id"), Kw("IN"), Kw("(") >>
        \o Join([k \in 1..Len(ids) |-> << Txt(ids[k]) >>], << Kw(",") >>)
        \o << Kw(")") >>

\* The UPDATE statement: "WHERE id = $2" for one id, "WHERE id IN ($2, ...)" otherwise.
UpdateQuery(table, columnName, updateCount, ids) ==
    IF updateCount = 1
    THEN << Kw("UPDATE"), Nm(table.Name), Kw("SET"), Nm(columnName), Kw("="), Ph(1),
            Kw("WHERE"), Kw("id"), Kw("="), Ph(2) >>
    ELSE << Kw("UPDATE"), Nm(table.Name), Kw("SET"), Nm(columnName), Kw("="), Ph(1),
            Kw("WHERE"), Kw("id"), Kw("IN"), Kw("(") >>
            \o Join([k \in 1..Len(ids) |-> << Ph(k + 1) >>], << Kw(",") >>)
            \o << Kw(")") >>

\* The arguments with ids[0] bound whatever the number of ids.
UpdateArgsFirstId(newValue, updateCount, ids) == << StrArg(newValue), StrArg(ids[1]) >>

\* args: the new value, then ids[0] alone or every id in order.
UpdateArgs(newValue, updateCount, ids) ==
    IF updateCount = 1
    THEN << StrArg(newValue), StrArg(ids[1]) >>
    ELSE << StrArg(newValue) >> \o [k \in 1..Len(ids) |-> StrArg(ids[k])]

\* "INSERT INTO %s (%s) VALUES (%s)"
InsertQuery(table) ==
    << Kw("INSERT INTO"), Nm(table.Name), Kw("(") >>
        \o Join(Names(InsertColumns(table)), << Kw(",") >>)
        \o << Kw(")"), Kw("VALUES"), Kw("(") >>
        \o Join(Placeholders(Len(InsertColumns(table))), << Kw(",") >>)
        \o << Kw(")") >>

\* "INSERT INTO %s (%s) VALUES (%s) RETURNING id"
InsertReturningQuery(table) == InsertQuery(table) \o << Kw("RETURNING"), Kw("id") >>

----------------------------------------------------------------------------
\* Validation

\* The numeric-field test of updateData and insertData.
IsNumericColumn(column) ==
    column \in {"price", "quantity", "founded_year", "category_id",
                "manufacturer_id", "component_id"}

\* The numeric-field test applied to the first table of insertRelatedData.
IsNumericColumn1(column) ==
    column \in {"price", "founded_year", "category_id", "manufacturer_id"}

\* The numeric-field test applied to the second table of insertRelatedData.
IsNumericColumn2(column) == column \in {"quantity", "price"}

\* The column list that offers every column, id included.
UpdatableColumnsWithId(table) == table.Columns

\* The column list offered by updateData: every column but id.
UpdatableColumns(table) == SelectSeq(table.Columns, LAMBDA c : c # "id")

\* The search without the test of the first table: the first id-like column.
RECURSIVE KnownForeignKeyAnyId(_, _, _)
KnownForeignKeyAnyId(columns, t1, t2) ==
    IF columns = <<>> THEN ""
    ELSE IF Head(columns) \in {"component_id", "category_id", "manufacturer_id"}
    THEN Head(columns)
    ELSE KnownForeignKeyAnyId(Tail(columns), t1, t2)

\* The first loop of the foreign-key search: the first column, in declared
\* order, that one of the known relations names; "" when none does.
RECURSIVE KnownForeignKey(_, _, _)
KnownForeignKey(columns, t1, t2) ==
    IF columns = <<>> THEN ""
    ELSE LET column == Head(columns)
         IN  IF /\ column \in {"component_id", "category_id", "manufacturer_id"}
                /\ \/ /\ Contains(Spell(t2.Name), Spell("stock"))
                      /\ t1.Name = "components"
                      /\ column = "component_id"
                   \/ /\ ~(/\ Contains(Spell(t2.Name), Spell("stock"))
                           /\ t1.Name = "components"
                           /\ column = "component_id")
                      /\ Contains(Spell(t2.Name), Spell("components"))
                      /\ \/ t1.Name = "categories" /\ column = "category_id"
                         \/ t1.Name = "manufacturers" /\ column = "manufacturer_id"
             THEN column
             ELSE KnownForeignKey(Tail(columns), t1, t2)

\* The second loop without its test for id: the first column whatever it is.
FirstColumn(columns) ==
    IF columns = <<>> THEN "" ELSE Head(columns)

\* The second loop: the first column that is not id; "" when there is none.
RECURSIVE FirstNonId(_)
FirstNonId(columns) ==
    IF columns = <<>> THEN ""
    ELSE IF Head(columns) # "id" THEN Head(columns)
    ELSE FirstNonId(Tail(columns))

\* The resolution that scans the columns of the first table instead of the second.
ForeignKeyColumnOfFirst(t1, t2) ==
    LET known == KnownForeignKey(t1.Columns, t1, t2)
    IN  IF known = "" THEN FirstNonId(t1.Columns) ELSE known

\* foreignKeyColumn as insertRelatedData resolves it.
ForeignKeyColumn(t1, t2) ==
    LET known == KnownForeignKey(t2.Columns, t1, t2)
    IN  IF known = "" THEN FirstNonId(t2.Columns) ELSE known

----------------------------------------------------------------------------
\* Result tables: the rows a query hands out and the grid printed from them

\* Largest number of rows a result set hands out.
MaxRows == 2

\* A value scanned from a row: NULL, or a value with its text as %v prints it.
Null == [null |-> TRUE, text |-> <<>>]
Value(text) == [null |-> FALSE, text |-> text]

\* A text longer than every column name of the catalog.
LongText ==
    << "R","e","s","i","s","t","o","r"," ","1","0","k"," ","0",".","2","5","W"," ","x" >>

\* The cell string of a scanned value: empty for NULL, else its text.
CellString(val) == IF val.null THEN <<>> ELSE val.text

\* The rows a result set of n columns may hand out, each with the outcome of
\* its Scan: a row of short values and NULLs, a row of long texts and empty
\* texts, and a row of long texts whose Scan fails.
ResultRows(n) ==
    { [ok |-> TRUE,  vals |-> [k \in 1..n |-> IF k % 2 = 1 THEN Value(<< "4", "2", "0" >>)
                                              ELSE Null]],
      [ok |-> TRUE,  vals |-> [k \in 1..n |-> IF k % 2 = 0 THEN Value(LongText)
                                              ELSE Value(<<>>)]],
      [ok |-> FALSE, vals |-> [k \in 1..n |-> Value(LongText)]] }

\* strings.Repeat(c, n).
Repeat(c, n) == [k \in 1..n |-> c]

\* padRight that cuts one character too many.
padRightCutShort(str, length) ==
    IF Len(str) >= length THEN SubSeq(str, 1, length - 1)
    ELSE str \o Repeat(" ", length - Len(str))

\* padRight: the string cut to the length, or padded with blanks up to it.
padRight(str, length) ==
    IF Len(str) >= length THEN SubSeq(str, 1, length)
    ELSE str \o Repeat(" ", length - Len(str))

\* The widths before any row is read: the lengths of the column names.
HeaderWidths(columns) == [k \in 1..Len(columns) |-> Len(Spell(columns[k]))]

\* The widths that forget the column names once a row is read.
WidenByRowOnly(widths, rowData) == [k \in 1..Len(widths) |-> Len(rowData[k])]

\* The widths after one more row: each grows to its cell when the cell is longer.
Widen(widths, rowData) ==
    [k \in 1..Len(widths) |->
        IF Len(rowData[k]) > widths[k] THEN Len(rowData[k]) ELSE widths[k]]

\* One printed line of the grid.
Line(kind, text) == [kind |-> kind, text |-> text]

HeaderLine(columns, widths) ==
    Join([k \in 1..Len(columns) |-> padRight(Spell(columns[k]), widths[k])],
         << " ", "|", " " >>)

DividerLine(widths) ==
    Join([k \in 1..Len(widths) |-> Repeat("-", widths[k])], << "-", "+", "-" >>)

RowLine(rowData, widths) ==
    Join([k \in 1..Len(rowData) |-> padRight(rowData[k], widths[k])],
         << " ", "|", " " >>)

\* The grid without its divider.
GridLinesNoDivider(columns, widths, kept) ==
    << Line("blank", <<>>), Line("header", HeaderLine(columns, widths)) >>
    \o [r \in 1..Len(kept) |-> Line("row", RowLine(kept[r], widths))]
    \o << Line("blank", <<>>), Line("summary", Itoa(Len(kept))) >>

\* What viewTable and filterData print for a result: an empty line and the
\* header, the divider, one line per kept row, an empty line and the count.
GridLines(columns, widths, kept) ==
    << Line("blank", <<>>), Line("header", HeaderLine(columns, widths)),
       Line("divider", DividerLine(widths)) >>
    \o [r \in 1..Len(kept) |-> Line("row", RowLine(kept[r], widths))]
    \o << Line("blank", <<>>), Line("summary", Itoa(Len(kept))) >>

----------------------------------------------------------------------------
\* Console input: the lines the operator may type at each kind of prompt.

\* A text value with letters of both alphabets, inner white space, a hyphen and
\* a period, typed with a leading blank, and ending in the capitalised word
\* that logToFileAndScreen looks for; and a plain number.
TextLine   == << " ", "a", "U+044F", " ", "-", ".", "Z", " ",
                 "U+041E", "U+0448", "U+0438", "U+0431", "U+043A", "U+0430" >>
NumberLine == << "4", "2" >>

ValueLines ==
    { TextLine, NumberLine,
      <<>>, << " " >>, << "a", ";" >>, << "'" >>, << "+", "7" >>, << "4", "=", "4" >>,
      << "U+0401", "_" >> }

ChoiceLines ==
    { <<>>, << "a" >>, << "-", "1" >> } \cup { << d >> : d \in {"0", "1", "2", "3", "4", "5", "6", "7"} }

CountLines ==
    { <<>>, << "a" >>, << "0" >>, << "-", "1" >> } \cup { Itoa(n) : n \in 1..MaxCount }

IdLines == { << "1" >>, << "+", "2" >>, <<>>, << "a" >>, << "1", ";" >> }

\* The database's side of an INSERT: the table's id sequence gives the new row
\* the next number, which RETURNING id hands back.  Seen from one operation,
\* the rows before it are those the operation has inserted so far.
Row(tableName, id) == [table |-> tableName, id |-> id]

NextId(inserted, tableName) ==
    1 + Cardinality({ r \in 1..Len(inserted) : inserted[r].table = tableName })

----------------------------------------------------------------------------
\* Log messages

\* The word logToFileAndScreen looks for.
ErrorKeyword == << "U+043E", "U+0448", "U+0438", "U+0431", "U+043A", "U+0430" >>

\* The words of the statements, character by character.
Chars(word) ==
    CASE word = "(" -> << "(" >>
      [] word = ")" -> << ")" >>
      [] word = "*" -> << "*" >>
      [] word = "," -> << "," >>
      [] word = "=" -> << "=" >>
      [] word = "AND" -> << "A", "N", "D" >>
      [] word = "DELETE FROM" -> << "D", "E", "L", "E", "T", "E", " ", "F", "R", "O", "M" >>
      [] word = "FROM" -> << "F", "R", "O", "M" >>
      [] word = "IN" -> << "I", "N" >>
      [] word = "INSERT INTO" -> << "I", "N", "S", "E", "R", "T", " ", "I", "N", "T", "O" >>
      [] word = "OR" -> << "O", "R" >>
      [] word = "ORDER BY" -> << "O", "R", "D", "E", "R", " ", "B", "Y" >>
      [] word = "RETURNING" -> << "R", "E", "T", "U", "R", "N", "I", "N", "G" >>
      [] word = "SELECT" -> << "S", "E", "L", "E", "C", "T" >>
      [] word = "SET" -> << "S", "E", "T" >>
      [] word = "UPDATE" -> << "U", "P", "D", "A", "T", "E" >>
      [] word = "VALUES" -> << "V", "A", "L", "U", "E", "S" >>
      [] word = "WHERE" -> << "W", "H", "E", "R", "E" >>
      [] word = "id" -> << "i", "d" >>

\* One token of a statement as text.
TokenText(token) ==
    CASE token.k = "kw"   -> Chars(token.name)
      [] token.k = "name" -> Spell(token.name)
      [] token.k = "ph"   -> << "$" >> \o Itoa(token.n)
      [] OTHER            -> token.text

\* %s of a statement: its tokens in order, one space apart.
SqlText(query) == Join([k \in 1..Len(query) |-> TokenText(query[k])], << " " >>)

\* %v of a slice of parameters: the values, one space apart, in brackets.
ValuesText(args) ==
    << "[" >>
    \o Join([k \in 1..Len(args) |->
                IF args[k].t = "int" THEN Itoa(args[k].n) ELSE args[k].s], << " " >>)
    \o << "]" >>

\* %v of an error of the driver: one sample text.
ErrorText == << "E", "O", "F" >>

\* The relation string of two tables.
RelationText(t1, t2) == Spell(t1.Name) \o << " ", "U+0438", " " >> \o Spell(t2.Name)

\* The arguments of a message: a statement, a slice of parameters, or a text.
QueryArg(query) == [v |-> "query",  x |-> query]
ValuesArg(args) == [v |-> "values", x |-> args]
TextArg(text)   == [v |-> "text",   x |-> text]

RenderArg(arg) ==
    CASE arg.v = "query"  -> SqlText(arg.x)
      [] arg.v = "values" -> ValuesText(arg.x)
      [] OTHER            -> arg.x

\* A message before fmt.Sprintf: the format, by name, and its arguments.
Message(format, args) == [format |-> format, args |-> args]

\* The format strings of the calls of logToFileAndScreen, cut at their verbs.
Format(name) ==
    CASE name = "ConnectError" ->
             << << "U+041E", "U+0448", "U+0438", "U+0431", "U+043A", "U+0430", " ",
                   "U+043F", "U+043E", "U+0434", "U+043A", "U+043B", "U+044E", "U+0447",
                   "U+0435", "U+043D", "U+0438", "U+044F", " ", "U+043A", " ", "U+0411",
                   "U+0414", ":", " " >>,
             <<  >> >>
      [] name = "Waiting" ->
             << << "U+041E", "U+0436", "U+0438", "U+0434", "U+0430", "U+043D", "U+0438",
                   "U+0435", " ", "U+0437", "U+0430", "U+043F", "U+0443", "U+0441",
                   "U+043A", "U+0430", " ", "P", "o", "s", "t", "g", "r", "e", "S", "Q",
                   "L", ".", ".", "." >> >>
      [] name = "PingError" ->
             << << "U+041F", "U+043E", "U+043F", "U+044B", "U+0442", "U+043A", "U+0430",
                   " " >>,
             << ":", " ", "U+041E", "U+0448", "U+0438", "U+0431", "U+043A", "U+0430",
                   " ", "U+043F", "U+0440", "U+043E", "U+0432", "U+0435", "U+0440",
                   "U+043A", "U+0438", " ", "U+043F", "U+043E", "U+0434", "U+043A",
                   "U+043B", "U+044E", "U+0447", "U+0435", "U+043D", "U+0438", "U+044F",
                   ":", " " >>,
             <<  >> >>
      [] name = "ConnectFailed" ->
             << << "U+041E", "U+0448", "U+0438", "U+0431", "U+043A", "U+0430", ":", " ",
                   "U+041D", "U+0435", " ", "U+0443", "U+0434", "U+0430", "U+043B",
                   "U+043E", "U+0441", "U+044C", " ", "U+043F", "U+043E", "U+0434",
                   "U+043A", "U+043B", "U+044E", "U+0447", "U+0438", "U+0442", "U+044C",
                   "U+0441", "U+044F", " ", "U+043A", " ", "U+0431", "U+0430", "U+0437",
                   "U+0435", " ", "U+0434", "U+0430", "U+043D", "U+043D", "U+044B",
                   "U+0445" >> >>
      [] name = "Connected" ->
             << << "U+0423", "U+0441", "U+043F", "U+0435", "U+0448", "U+043D", "U+043E",
                   "U+0435", " ", "U+043F", "U+043E", "U+0434", "U+043A", "U+043B",
                   "U+044E", "U+0447", "U+0435", "U+043D", "U+0438", "U+0435", " ",
                   "U+043A", " ", "U+0431", "U+0430", "U+0437", "U+0435", " ", "U+0434",
                   "U+0430", "U+043D", "U+043D", "U+044B", "U+0445" >> >>
      [] name = "ViewExecuting" ->
             << << "U+0412", "U+044B", "U+043F", "U+043E", "U+043B", "U+043D", "U+0435",
                   "U+043D", "U+0438", "U+0435", " ", "U+0437", "U+0430", "U+043F",
                   "U+0440", "U+043E", "U+0441", "U+0430", ":", " " >>,
             <<  >> >>
      [] name = "ViewError" ->
             << << "U+041E", "U+0448", "U+0438", "U+0431", "U+043A", "U+0430", " ",
                   "U+0432", "U+044B", "U+043F", "U+043E", "U+043B", "U+043D", "U+0435",
                   "U+043D", "U+0438", "U+044F", " ", "U+0437", "U+0430", "U+043F",
                   "U+0440", "U+043E", "U+0441", "U+0430", ":", " " >>,
             <<  >> >>
      [] name = "ScanError" ->
             << << "U+041E", "U+0448", "U+0438", "U+0431", "U+043A", "U+0430", " ",
                   "U+0447", "U+0442", "U+0435", "U+043D", "U+0438", "U+044F", " ",
                   "U+0441", "U+0442", "U+0440", "U+043E", "U+043A", "U+0438", ":", " " >>,
             <<  >> >>
      [] name = "ViewFound" ->
             << << "U+041F", "U+0440", "U+043E", "U+0441", "U+043C", "U+043E", "U+0442",
                   "U+0440", " ", "U+0442", "U+0430", "U+0431", "U+043B", "U+0438",
                   "U+0446", "U+044B", " " >>,
             << ":", " ", "U+043D", "U+0430", "U+0439", "U+0434", "U+0435", "U+043D",
                   "U+043E", " " >>,
             << " ", "U+0437", "U+0430", "U+043F", "U+0438", "U+0441", "U+0435",
                   "U+0439" >> >>
      [] name = "FilterExecuting" ->
             << << "U+0412", "U+044B", "U+043F", "U+043E", "U+043B", "U+043D", "U+0435",
                   "U+043D", "U+0438", "U+0435", " ", "U+0444", "U+0438", "U+043B",
                   "U+044C", "U+0442", "U+0440", "U+0430", "U+0446", "U+0438", "U+0438",
                   ":", " " >>,
             << " ", "U+0441", " ", "U+043F", "U+0430", "U+0440", "U+0430", "U+043C",
                   "U+0435", "U+0442", "U+0440", "U+0430", "U+043C", "U+0438", " " >>,
             <<  >> >>
      [] name = "FilterError" ->
             << << "U+041E", "U+0448", "U+0438", "U+0431", "U+043A", "U+0430", " ",
                   "U+0432", "U+044B", "U+043F", "U+043E", "U+043B", "U+043D", "U+0435",
                   "U+043D", "U+0438", "U+044F", " ", "U+0444", "U+0438", "U+043B",
                   "U+044C", "U+0442", "U+0440", "U+0430", "U+0446", "U+0438", "U+0438",
                   ":", " " >>,
             <<  >> >>
      [] name = "FilterNone" ->
             << << "U+0424", "U+0438", "U+043B", "U+044C", "U+0442", "U+0440", "U+0430",
                   "U+0446", "U+0438", "U+044F", ":", " ", "U+0437", "U+0430", "U+043F",
                   "U+0438", "U+0441", "U+0435", "U+0439", " ", "U+043D", "U+0435", " ",
                   "U+043D", "U+0430", "U+0439", "U+0434", "U+0435", "U+043D", "U+043E" >> >>
      [] name = "FilterFound" ->
             << << "U+0424", "U+0438", "U+043B", "U+044C", "U+0442", "U+0440", "U+0430",
                   "U+0446", "U+0438", "U+044F", " ", "U+0442", "U+0430", "U+0431",
                   "U+043B", "U+0438", "U+0446", "U+044B", " " >>,
             << ":", " ", "U+043D", "U+0430", "U+0439", "U+0434", "U+0435", "U+043D",
                   "U+043E", " " >>,
             << " ", "U+0437", "U+0430", "U+043F", "U+0438", "U+0441", "U+0435",
                   "U+0439" >> >>
      [] name = "UpdateExecuting" ->
             << << "U+0412", "U+044B", "U+043F", "U+043E", "U+043B", "U+043D", "U+0435",
                   "U+043D", "U+0438", "U+0435", " ", "U+043E", "U+0431", "U+043D",
                   "U+043E", "U+0432", "U+043B", "U+0435", "U+043D", "U+0438", "U+044F",
                   ":", " " >>,
             << " ", "U+0441", " ", "U+043F", "U+0430", "U+0440", "U+0430", "U+043C",
                   "U+0435", "U+0442", "U+0440", "U+0430", "U+043C", "U+0438", " " >>,
             <<  >> >>
      [] name = "UpdateError" ->
             << << "U+041E", "U+0448", "U+0438", "U+0431", "U+043A", "U+0430", " ",
                   "U+043E", "U+0431", "U+043D", "U+043E", "U+0432", "U+043B", "U+0435",
                   "U+043D", "U+0438", "U+044F", ":", " " >>,
             <<  >> >>
      [] name = "UpdateDone" ->
             << << "U+041E", "U+0431", "U+043D", "U+043E", "U+0432", "U+043B", "U+0435",
                   "U+043D", "U+0438", "U+0435", " ", "U+0442", "U+0430", "U+0431",
                   "U+043B", "U+0438", "U+0446", "U+0430", " " >>,
             << ":", " ", "U+043E", "U+0431", "U+043D", "U+043E", "U+0432", "U+043B",
                   "U+0435", "U+043D", "U+043E", " " >>,
             << " ", "U+0437", "U+0430", "U+043F", "U+0438", "U+0441", "U+0435",
                   "U+0439" >> >>
      [] name = "InsertExecuting" ->
             << << "U+0412", "U+044B", "U+043F", "U+043E", "U+043B", "U+043D", "U+0435",
                   "U+043D", "U+0438", "U+0435", " ", "U+0432", "U+0441", "U+0442",
                   "U+0430", "U+0432", "U+043A", "U+0438", ":", " " >>,
             << " ", "U+0441", " ", "U+043F", "U+0430", "U+0440", "U+0430", "U+043C",
                   "U+0435", "U+0442", "U+0440", "U+0430", "U+043C", "U+0438", " " >>,
             <<  >> >>
      [] name = "InsertError" ->
             << << "U+041E", "U+0448", "U+0438", "U+0431", "U+043A", "U+0430", " ",
                   "U+0432", "U+0441", "U+0442", "U+0430", "U+0432", "U+043A", "U+0438",
                   ":", " " >>,
             <<  >> >>
      [] name = "InsertDone" ->
             << << "U+0414", "U+043E", "U+0431", "U+0430", "U+0432", "U+043B", "U+0435",
                   "U+043D", "U+0430", " ", "U+0437", "U+0430", "U+043F", "U+0438",
                   "U+0441", "U+044C", " ", "U+0432", " ", "U+0442", "U+0430", "U+0431",
                   "U+043B", "U+0438", "U+0446", "U+0443", " " >>,
             <<  >> >>
      [] name = "FirstExecuting" ->
             << << "U+0412", "U+044B", "U+043F", "U+043E", "U+043B", "U+043D", "U+0435",
                   "U+043D", "U+0438", "U+0435", " ", "U+0432", "U+0441", "U+0442",
                   "U+0430", "U+0432", "U+043A", "U+0438", " ", "U+0432", " ", "U+0441",
                   "U+0432", "U+044F", "U+0437", "U+0430", "U+043D", "U+043D", "U+044B",
                   "U+0435", " ", "U+0442", "U+0430", "U+0431", "U+043B", "U+0438",
                   "U+0446", "U+044B", ":", " " >>,
             << " ", "U+0441", " ", "U+043F", "U+0430", "U+0440", "U+0430", "U+043C",
                   "U+0435", "U+0442", "U+0440", "U+0430", "U+043C", "U+0438", " " >>,
             <<  >> >>
      [] name = "FirstError" ->
             << << "U+041E", "U+0448", "U+0438", "U+0431", "U+043A", "U+0430", " ",
                   "U+0432", "U+0441", "U+0442", "U+0430", "U+0432", "U+043A", "U+0438",
                   " ", "U+0432", " ", "U+043F", "U+0435", "U+0440", "U+0432", "U+0443",
                   "U+044E", " ", "U+0442", "U+0430", "U+0431", "U+043B", "U+0438",
                   "U+0446", "U+0443", ":", " " >>,
             <<  >> >>
      [] name = "SecondExecuting" ->
             << << "U+0412", "U+044B", "U+043F", "U+043E", "U+043B", "U+043D", "U+0435",
                   "U+043D", "U+0438", "U+0435", " ", "U+0432", "U+0441", "U+0442",
                   "U+0430", "U+0432", "U+043A", "U+0438", " ", "U+0432", "U+043E", " ",
                   "U+0432", "U+0442", "U+043E", "U+0440", "U+0443", "U+044E", " ",
                   "U+0442", "U+0430", "U+0431", "U+043B", "U+0438", "U+0446", "U+0443",
                   ":", " " >>,
             << " ", "U+0441", " ", "U+043F", "U+0430", "U+0440", "U+0430", "U+043C",
                   "U+0435", "U+0442", "U+0440", "U+0430", "U+043C", "U+0438", " " >>,
             <<  >> >>
      [] name = "SecondError" ->
             << << "U+041E", "U+0448", "U+0438", "U+0431", "U+043A", "U+0430", " ",
                   "U+0432", "U+0441", "U+0442", "U+0430", "U+0432", "U+043A", "U+0438",
                   " ", "U+0432", "U+043E", " ", "U+0432", "U+0442", "U+043E", "U+0440",
                   "U+0443", "U+044E", " ", "U+0442", "U+0430", "U+0431", "U+043B",
                   "U+0438", "U+0446", "U+0443", ":", " " >>,
             <<  >> >>
      [] name = "RelatedDone" ->
             << << "U+0414", "U+043E", "U+0431", "U+0430", "U+0432", "U+043B", "U+0435",
                   "U+043D", "U+044B", " ", "U+0437", "U+0430", "U+043F", "U+0438",
                   "U+0441", "U+0438", " ", "U+0432", " ", "U+0441", "U+0432", "U+044F",
                   "U+0437", "U+0430", "U+043D", "U+043D", "U+044B", "U+0435", " ",
                   "U+0442", "U+0430", "U+0431", "U+043B", "U+0438", "U+0446", "U+044B",
                   " " >>,
             <<  >> >>

\* fmt.Sprintf: the pieces of the format with the arguments between them.
RECURSIVE Sprintf(_, _)
Sprintf(pieces, args) ==
    IF args = <<>> THEN Head(pieces)
    ELSE Head(pieces) \o Head(args) \o Sprintf(Tail(pieces), Tail(args))

\* The text of a message.
Text(message) ==
    Sprintf(Format(message.format),
            [k \in 1..Len(message.args) |-> RenderArg(message.args[k])])

\* strings.Contains(strings.ToLower(message), keyword)
ContainsErrorKeyword(message) == Contains(ToLower(Text(message)), ErrorKeyword)

----------------------------------------------------------------------------
\* State

VARIABLES
    pc,                 \* where the session stands: the prompt or call it is at
    op,                 \* the menu operation entered last ("" before the first)
    count,              \* filterCount, updateCount or recordCount
    table,              \* the TableInfo chosen through selectTable
    i,                  \* the index of the loop over filters, ids or records
    columnName,         \* the column chosen in filterData or updateData
    conditions,         \* filterData: the WHERE conditions built so far
    values,             \* filterData and insertData: values; insertRelatedData: values1
    ids,                \* updateData: the ids typed
    newValue,           \* updateData: the new value
    table1, table2,     \* insertRelatedData: the two tables of the relation
    insertedID,         \* insertRelatedData: the id scanned from the first insert
    foreignKeyColumn,   \* insertRelatedData: the resolved column of table2
    values2,            \* insertRelatedData: the second insert's values
    stmts,              \* the database calls, in order, with their outcome: those of the
                        \* record in progress in insertData and insertRelatedData, of
                        \* the whole operation elsewhere
    hist,               \* the lines read from the console: the operation's opening
                        \* prompts, then those of the record in progress
    rows,               \* the rows the operation has inserted so far, oldest first
    out,                \* what the operation printed, as message tags
    db,                 \* the connection handle: "none" before sql.Open, then "open" or "closed"
    exitCode,           \* -1 while the process runs, its exit status afterwards
    boot,               \* what startup did, in order: pings with their outcome, waits
    columnWidths,       \* viewTable and filterData: the width of each column so far
    allRows,            \* viewTable and filterData: the rows kept for printing
    fetched,            \* the rows the result set has handed out, with the outcome of Scan
    screen,             \* the lines of the result table printed by the operation
    logFile,            \* the messages appended to the log file: those of the record in
                        \* progress in insertData and insertRelatedData, of the whole
                        \* operation elsewhere
    console             \* those of them that were also printed on the console

locals == << count, table, i, columnName, conditions, values, ids, newValue,
             table1, table2, insertedID, foreignKeyColumn, values2 >>

grid == << columnWidths, allRows, fetched, screen >>

logs == << logFile, console >>

vars == << pc, op, locals, stmts, hist, rows, out, db, exitCode, boot, grid, logs >>

\* The last element of a non-empty sequence.
Last(seq) == seq[Len(seq)]

\* One line read: the prompt it answered, the column asked for (if any), the text.
ReadEvent(at, column, line) == [at |-> at, column |-> column, line |-> line]

\* One database call with its outcome; id is what RETURNING id gave back.
Call(kind, sql, args, ok, id) ==
    [call |-> kind, sql |-> sql, args |-> args, ok |-> ok, id |-> id]

\* The process at the entry of main: nothing opened yet.
Init ==
    /\ pc = "start"
    /\ op = ""
    /\ count = 0
    /\ table = NoTable
    /\ i = 0
    /\ columnName = ""
    /\ conditions = <<>>
    /\ values = <<>>
    /\ ids = <<>>
    /\ newValue = <<>>
    /\ table1 = NoTable
    /\ table2 = NoTable
    /\ insertedID = 0
    /\ foreignKeyColumn = ""
    /\ values2 = <<>>
    /\ stmts = <<>>
    /\ hist = <<>>
    /\ rows = <<>>
    /\ out = <<>>
    /\ db = "none"
    /\ exitCode = -1
    /\ boot = <<>>
    /\ columnWidths = <<>>
    /\ allRows = <<>>
    /\ fetched = <<>>
    /\ screen = <<>>
    /\ logFile = <<>>
    /\ console = <<>>

\* logToFileAndScreen for the messages of one step, in order: each is written
\* to the log file, and printed as well when its text has the keyword.  (The
\* time stamps that log.Println and the printed line carry are left out.)
logToFileAndScreen(messages) ==
    /\ logFile' = logFile \o messages
    /\ console' = console \o SelectSeq(messages, ContainsErrorKeyword)

\* A handler's locals at its entry.
FreshLocals ==
    /\ count' = 0
    /\ table' = NoTable
    /\ i' = 0
    /\ columnName' = ""
    /\ conditions' = <<>>
    /\ values' = <<>>
    /\ ids' = <<>>
    /\ newValue' = <<>>
    /\ table1' = NoTable
    /\ table2' = NoTable
    /\ insertedID' = 0
    /\ foreignKeyColumn' = ""
    /\ values2' = <<>>

----------------------------------------------------------------------------
\* Startup

\* The number of connection checks main makes before it gives up.
maxRetries == 3

\* main up to the connection check: the log file is opened, the credentials are
\* read, the handle is created and the process waits for the database.  A log
\* file that cannot be opened, or a handle that cannot be created, ends the
\* process with status 1.
Startup ==
    /\ pc = "start"
    /\ \E outcome \in { "NoLogFile", "NoHandle", "Opened" } :
         IF outcome = "Opened"
         THEN /\ db' = "open"
              /\ logToFileAndScreen(<< Message("Waiting", <<>>) >>)
              /\ boot' = << "Sleep5" >>
              /\ pc' = "ping"
              /\ UNCHANGED exitCode
         ELSE /\ boot' = << outcome >>
              /\ IF outcome = "NoHandle"
                 THEN logToFileAndScreen(<< Message("ConnectError", << TextArg(ErrorText) >>) >>)
                 ELSE UNCHANGED logs
              /\ exitCode' = 1
              /\ pc' = "exit"
              /\ UNCHANGED db
    /\ UNCHANGED << op, locals, stmts, hist, rows, out, grid >>

\* One round of the connection check that waits after every failed attempt,
\* the last one included.
PingWaitAlways ==
    /\ pc = "ping"
    /\ \E ok \in BOOLEAN :
         IF ok
         THEN /\ boot' = Append(boot, "PingOk")
              /\ logToFileAndScreen(<< Message("Connected", <<>>) >>)
              /\ i' = 0
              /\ pc' = "menu"
              /\ UNCHANGED exitCode
         ELSE /\ boot' = boot \o << "PingFail", "Sleep2" >>
              /\ IF i < maxRetries - 1
                 THEN /\ logToFileAndScreen(<< Message("PingError",
                                 << TextArg(Itoa(i + 1)), TextArg(ErrorText) >>) >>)
                      /\ i' = i + 1
                      /\ UNCHANGED << pc, exitCode >>
                 ELSE /\ logToFileAndScreen(<< Message("PingError",
                                 << TextArg(Itoa(i + 1)), TextArg(ErrorText) >>),
                              Message("ConnectFailed", <<>>) >>)
                      /\ exitCode' = 1
                      /\ pc' = "exit"
                      /\ UNCHANGED i
    /\ UNCHANGED << op, count, table, columnName, conditions, values, ids, newValue,
                    table1, table2, insertedID, foreignKeyColumn, values2,
                    stmts, hist, rows, out, db, grid >>

\* One round of the connection check: a successful ping leaves the loop, the
\* catalog is loaded and the menu is entered; a failed one waits and goes round
\* again, or, on the last attempt, ends the process with status 1.
Ping ==
    /\ pc = "ping"
    /\ \E ok \in BOOLEAN :
         IF ok
         THEN /\ boot' = Append(boot, "PingOk")
              /\ logToFileAndScreen(<< Message("Connected", <<>>) >>)
              /\ i' = 0
              /\ pc' = "menu"
              /\ UNCHANGED exitCode
         ELSE IF i < maxRetries - 1
         THEN /\ boot' = boot \o << "PingFail", "Sleep2" >>
              /\ logToFileAndScreen(<< Message("PingError",
                         << TextArg(Itoa(i + 1)), TextArg(ErrorText) >>) >>)
              /\ i' = i + 1
              /\ UNCHANGED << pc, exitCode >>
         ELSE /\ boot' = Append(boot, "PingFail")
              /\ logToFileAndScreen(<< Message("PingError",
                         << TextArg(Itoa(i + 1)), TextArg(ErrorText) >>),
                      Message("ConnectFailed", <<>>) >>)
              /\ exitCode' = 1
              /\ pc' = "exit"
              /\ UNCHANGED i
    /\ UNCHANGED << op, count, table, columnName, conditions, values, ids, newValue,
                    table1, table2, insertedID, foreignKeyColumn, values2,
                    stmts, hist, rows, out, db, grid >>

----------------------------------------------------------------------------
\* Menu

\* The prompt each menu choice leads to.
Operation(choice) ==
    CASE choice = 1 -> [op |-> "view",    pc |-> "view_select"]
      [] choice = 2 -> [op |-> "filter",  pc |-> "filter_count"]
      [] choice = 3 -> [op |-> "update",  pc |-> "update_count"]
      [] choice = 4 -> [op |-> "insert",  pc |-> "insert_count"]
      [] choice = 5 -> [op |-> "related", pc |-> "related_count"]

\* The top of mainMenu's loop: the menu is printed.  The previous handler's
\* locals are gone, the logs of the console, of the database calls and of the
\* messages written start again for the turn that begins, and of the startup
\* log only its outcome, the successful ping, is kept.
ShowMenu ==
    /\ pc = "menu"
    /\ pc' = "choice"
    /\ FreshLocals
    /\ hist' = <<>>
    /\ stmts' = <<>>
    /\ rows' = <<>>
    /\ out' = <<>>
    /\ columnWidths' = <<>>
    /\ allRows' = <<>>
    /\ fetched' = <<>>
    /\ screen' = <<>>
    /\ boot' = << Last(boot) >>
    /\ logFile' = <<>>
    /\ console' = <<>>
    /\ UNCHANGED << op, db, exitCode >>

\* The rest of the turn: read the choice, then exit, enter the chosen handler,
\* or report the error and go round the loop.
MainMenu ==
    /\ pc = "choice"
    /\ \E line \in ChoiceLines :
         LET input  == ReadLine(line)
             choice == Atoi(input)
         IN  /\ hist' = Append(hist, ReadEvent("choice", "", line))
             /\ CASE choice.err ->
                       /\ out' = Append(out, "ErrMenuDigit")
                       /\ pc' = "menu"
                       /\ op' = ""
                       /\ UNCHANGED << db, exitCode >>
                  [] ~choice.err /\ choice.n = 0 ->
                       /\ out' = Append(out, "Exiting")
                       /\ db' = "closed"
                       /\ exitCode' = 0
                       /\ pc' = "exit"
                       /\ op' = ""
                  [] ~choice.err /\ choice.n \in 1..5 ->
                       /\ op' = Operation(choice.n).op
                       /\ pc' = Operation(choice.n).pc
                       /\ UNCHANGED << out, db, exitCode, boot, grid >>
                  [] OTHER ->
                       /\ out' = Append(out, "ErrMenuRange")
                       /\ pc' = "menu"
                       /\ op' = ""
                       /\ UNCHANGED << db, exitCode >>
    /\ UNCHANGED << locals, stmts, rows, boot, grid >>
    /\ UNCHANGED logs

\* selectTable: the index chosen (0-based), or -1 on a bad number or on 0.
selectTable(input) ==
    LET choice == Atoi(input)
    IN  IF choice.err \/ choice.n < 0 \/ choice.n > Len(tables)
        THEN [index |-> -1, out |-> << "ErrTableChoice" >>]
        ELSE IF choice.n = 0 THEN [index |-> -1, out |-> <<>>]
        ELSE [index |-> choice.n - 1, out |-> <<>>]

\* selectColumn: the index chosen (0-based) among all columns of the table, or -1.
selectColumn(input, t) ==
    LET choice == Atoi(input)
    IN  IF choice.err \/ choice.n < 0 \/ choice.n > Len(t.Columns)
        THEN [index |-> -1, out |-> << "ErrColumnChoice" >>]
        ELSE IF choice.n = 0 THEN [index |-> -1, out |-> <<>>]
        ELSE [index |-> choice.n - 1, out |-> <<>>]

\* The count prompt ending the process on a bad count.
ReadCountFatal(at, next) ==
    /\ pc = at
    /\ \E line \in CountLines :
         LET n == Atoi(ReadLine(line))
         IN  /\ hist' = Append(hist, ReadEvent(at, "", line))
             /\ IF n.err \/ n.n < 1
                THEN /\ out' = Append(out, "ErrCount")
                     /\ pc' = "exit"
                     /\ exitCode' = 1
                     /\ UNCHANGED count
                ELSE /\ count' = n.n
                     /\ pc' = next
                     /\ UNCHANGED << out, exitCode >>
    /\ UNCHANGED << op, table, i, columnName, conditions, values, ids, newValue,
                    table1, table2, insertedID, foreignKeyColumn, values2,
                    stmts, rows, db, boot, grid >>
    /\ UNCHANGED logs

\* The count prompt that opens filterData, updateData, insertData and
\* insertRelatedData: a number below 1 or no number ends the handler.
ReadCount(at, next) ==
    /\ pc = at
    /\ \E line \in CountLines :
         LET n == Atoi(ReadLine(line))
         IN  /\ hist' = Append(hist, ReadEvent(at, "", line))
             /\ IF n.err \/ n.n < 1
                THEN /\ out' = Append(out, "ErrCount")
                     /\ pc' = "menu"
                     /\ UNCHANGED count
                ELSE /\ count' = n.n
                     /\ pc' = next
                     /\ UNCHANGED out
    /\ UNCHANGED << op, table, i, columnName, conditions, values, ids, newValue,
                    table1, table2, insertedID, foreignKeyColumn, values2,
                    stmts, rows, db, exitCode, boot, grid >>
    /\ UNCHANGED logs

----------------------------------------------------------------------------
\* filterData

FilterCount == ReadCount("filter_count", "filter_table")

\* The table choice of filterData.
FilterTable ==
    /\ pc = "filter_table"
    /\ \E line \in ChoiceLines :
         LET r == selectTable(ReadLine(line))
         IN  /\ hist' = Append(hist, ReadEvent("filter_table", "", line))
             /\ out' = out \o r.out
             /\ IF r.index = -1
                THEN pc' = "menu" /\ UNCHANGED table
                ELSE pc' = "filter_column" /\ table' = tables[r.index + 1]
    /\ UNCHANGED << op, count, i, columnName, conditions, values, ids, newValue,
                    table1, table2, insertedID, foreignKeyColumn, values2,
                    stmts, rows, db, exitCode, boot, grid >>
    /\ UNCHANGED logs

\* The column choice of filter i+1.
FilterColumn ==
    /\ pc = "filter_column"
    /\ \E line \in ChoiceLines :
         LET r == selectColumn(ReadLine(line), table)
         IN  /\ hist' = Append(hist, ReadEvent("filter_column", "", line))
             /\ out' = out \o r.out
             /\ IF r.index = -1
                THEN pc' = "menu" /\ UNCHANGED columnName
                ELSE pc' = "filter_value" /\ columnName' = table.Columns[r.index + 1]
    /\ UNCHANGED << op, count, table, i, conditions, values, ids, newValue,
                    table1, table2, insertedID, foreignKeyColumn, values2,
                    stmts, rows, db, exitCode, boot, grid >>
    /\ UNCHANGED logs

\* The value of filter i+1: checked against the white list, then appended with
\* its condition; the loop goes on to the next filter or to the query.
FilterValue ==
    /\ pc = "filter_value"
    /\ \E line \in ValueLines :
         LET value == ReadLine(line)
         IN  /\ hist' = Append(hist, ReadEvent("filter_value", columnName, line))
             /\ IF ~WhiteListMatch(value)
                THEN /\ out' = Append(out, "ErrInvalidCharacters")
                     /\ pc' = "menu"
                     /\ UNCHANGED << conditions, values, i >>
                ELSE /\ conditions' = Append(conditions, FilterCondition(columnName, i))
                     /\ values' = Append(values, StrArg(value))
                     /\ i' = i + 1
                     /\ pc' = IF i + 1 < count THEN "filter_column" ELSE "filter_query"
                     /\ UNCHANGED out
    /\ UNCHANGED << op, count, table, columnName, ids, newValue,
                    table1, table2, insertedID, foreignKeyColumn, values2,
                    stmts, rows, db, exitCode, boot, grid >>
    /\ UNCHANGED logs

\* db.Query of the filter: a failure is reported and the handler returns; on
\* success the widths start from the column names.
FilterQueryExec ==
    /\ pc = "filter_query"
    /\ \E ok \in BOOLEAN :
         /\ stmts' = Append(stmts, Call("Query", FilterQuery(table, conditions), values, ok, 0))
         /\ logToFileAndScreen(
                << Message("FilterExecuting",
                           << QueryArg(FilterQuery(table, conditions)), ValuesArg(values) >>) >>
                \o IF ok THEN <<>>
                   ELSE << Message("FilterError", << TextArg(ErrorText) >>) >>)
         /\ IF ok
            THEN /\ columnWidths' = HeaderWidths(table.Columns)
                 /\ allRows' = <<>>
                 /\ fetched' = <<>>
                 /\ pc' = "filter_rows"
                 /\ UNCHANGED out
            ELSE /\ out' = Append(out, "ErrFilter")
                 /\ pc' = "menu"
                 /\ UNCHANGED << columnWidths, allRows, fetched >>
    /\ UNCHANGED << op, locals, hist, rows, db, exitCode, boot, screen >>

\* One round of the loop over rows.Next(): the result set is exhausted, or it
\* hands out a row, which is kept and widens the columns unless its Scan fails.
FilterRow ==
    /\ pc = "filter_rows"
    /\ \/ /\ pc' = "filter_print"
          /\ UNCHANGED << columnWidths, allRows, fetched >>
       \/ /\ Len(fetched) < MaxRows
          /\ \E row \in ResultRows(Len(table.Columns)) :
               LET rowData == [k \in 1..Len(row.vals) |-> CellString(row.vals[k])]
               IN  /\ fetched' = Append(fetched, row)
                   /\ IF row.ok
                      THEN /\ columnWidths' = Widen(columnWidths, rowData)
                           /\ allRows' = Append(allRows, rowData)
                      ELSE UNCHANGED << columnWidths, allRows >>
          /\ UNCHANGED pc
    /\ UNCHANGED << op, locals, stmts, hist, rows, out, db, exitCode, boot, screen >>
    /\ UNCHANGED logs

\* The end of filterData: nothing kept is reported as such, otherwise the grid
\* is printed.
FilterPrint ==
    /\ pc = "filter_print"
    /\ IF allRows = <<>>
       THEN /\ out' = Append(out, "NoRecords")
            /\ logToFileAndScreen(<< Message("FilterNone", <<>>) >>)
            /\ UNCHANGED screen
       ELSE /\ screen' = GridLines(table.Columns, columnWidths, allRows)
            /\ out' = Append(out, "FilterResult")
            /\ logToFileAndScreen(<< Message("FilterFound",
                   << TextArg(Spell(table.Name)), TextArg(Itoa(Len(allRows))) >>) >>)
    /\ pc' = "menu"
    /\ UNCHANGED << op, locals, stmts, hist, rows, db, exitCode, boot,
                    columnWidths, allRows, fetched >>

----------------------------------------------------------------------------
\* updateData

UpdateCount == ReadCount("update_count", "update_table")

\* The table choice of updateData, and its list of updatable columns.
UpdateTable ==
    /\ pc = "update_table"
    /\ \E line \in ChoiceLines :
         LET r == selectTable(ReadLine(line))
         IN  /\ hist' = Append(hist, ReadEvent("update_table", "", line))
             /\ IF r.index = -1
                THEN /\ pc' = "menu"
                     /\ out' = out \o r.out
                     /\ UNCHANGED table
                ELSE /\ table' = tables[r.index + 1]
                     /\ IF Len(UpdatableColumns(tables[r.index + 1])) = 0
                        THEN pc' = "menu" /\ out' = Append(out, "NoUpdatableColumns")
                        ELSE pc' = "update_id" /\ UNCHANGED out
    /\ UNCHANGED << op, count, i, columnName, conditions, values, ids, newValue,
                    table1, table2, insertedID, foreignKeyColumn, values2,
                    stmts, rows, db, exitCode, boot, grid >>
    /\ UNCHANGED logs

\* One id of the list: it must parse as a number, and is kept as typed.
UpdateId ==
    /\ pc = "update_id"
    /\ \E line \in IdLines :
         LET idInput == ReadLine(line)
         IN  /\ hist' = Append(hist, ReadEvent("update_id", "id", line))
             /\ IF Atoi(idInput).err
                THEN /\ out' = Append(out, "ErrIdNotNumber")
                     /\ pc' = "menu"
                     /\ UNCHANGED << ids, i >>
                ELSE /\ ids' = Append(ids, idInput)
                     /\ i' = i + 1
                     /\ pc' = IF i + 1 < count THEN "update_id" ELSE "update_column"
                     /\ UNCHANGED out
    /\ UNCHANGED << op, count, table, columnName, conditions, values, newValue,
                    table1, table2, insertedID, foreignKeyColumn, values2,
                    stmts, rows, db, exitCode, boot, grid >>
    /\ UNCHANGED logs

\* The column choice, among the updatable columns only.
UpdateColumn ==
    /\ pc = "update_column"
    /\ \E line \in ChoiceLines :
         LET columnChoice == Atoi(ReadLine(line))
             updatableColumns == UpdatableColumns(table)
         IN  /\ hist' = Append(hist, ReadEvent("update_column", "", line))
             /\ IF columnChoice.err \/ columnChoice.n < 0
                   \/ columnChoice.n > Len(updatableColumns)
                THEN /\ out' = Append(out, "ErrColumnChoice")
                     /\ pc' = "menu"
                     /\ UNCHANGED columnName
                ELSE IF columnChoice.n = 0
                THEN /\ pc' = "menu"
                     /\ UNCHANGED << out, columnName >>
                ELSE /\ columnName' = updatableColumns[columnChoice.n]
                     /\ pc' = "update_value"
                     /\ UNCHANGED out
    /\ UNCHANGED << op, count, table, i, conditions, values, ids, newValue,
                    table1, table2, insertedID, foreignKeyColumn, values2,
                    stmts, rows, db, exitCode, boot, grid >>
    /\ UNCHANGED logs

\* The new value: white list, then the numeric test by column name.
UpdateValue ==
    /\ pc = "update_value"
    /\ \E line \in ValueLines :
         LET value == ReadLine(line)
         IN  /\ hist' = Append(hist, ReadEvent("update_value", columnName, line))
             /\ IF ~WhiteListMatch(value)
                THEN /\ out' = Append(out, "ErrInvalidCharacters")
                     /\ pc' = "menu"
                     /\ UNCHANGED newValue
                ELSE IF IsNumericColumn(columnName) /\ Atoi(value).err
                THEN /\ out' = Append(out, "ErrNotANumber")
                     /\ pc' = "menu"
                     /\ UNCHANGED newValue
                ELSE /\ newValue' = value
                     /\ pc' = "update_exec"
                     /\ UNCHANGED out
    /\ UNCHANGED << op, count, table, i, columnName, conditions, values, ids,
                    table1, table2, insertedID, foreignKeyColumn, values2,
                    stmts, rows, db, exitCode, boot, grid >>
    /\ UNCHANGED logs

\* db.Exec of the UPDATE statement.
UpdateExec ==
    /\ pc = "update_exec"
    /\ \E ok \in BOOLEAN :
         /\ stmts' = Append(stmts, Call("Exec", UpdateQuery(table, columnName, count, ids),
                                        UpdateArgs(newValue, count, ids), ok, 0))
         /\ out' = Append(out, IF ok THEN "Updated" ELSE "ErrUpdate")
         /\ \E rowsAffected \in (IF ok THEN 0..count ELSE {0}) :
              logToFileAndScreen(
                  << Message("UpdateExecuting",
                             << QueryArg(UpdateQuery(table, columnName, count, ids)),
                                ValuesArg(UpdateArgs(newValue, count, ids)) >>),
                     IF ok
                     THEN Message("UpdateDone", << TextArg(Spell(table.Name)),
                                                   TextArg(Itoa(rowsAffected)) >>)
                     ELSE Message("UpdateError", << TextArg(ErrorText) >>) >>)
    /\ pc' = "menu"
    /\ UNCHANGED << op, locals, hist, rows, db, exitCode, boot, grid >>

----------------------------------------------------------------------------
\* insertData

\* The prompts answered once per record; the reads before them open the operation.
RecordPrompts == { "insert_value", "related_first", "related_second" }

OpeningReads(log) == SelectSeq(log, LAMBDA e : e.at \notin RecordPrompts)

InsertCount == ReadCount("insert_count", "insert_table")

\* The table choice of insertData.
InsertTable ==
    /\ pc = "insert_table"
    /\ \E line \in ChoiceLines :
         LET r == selectTable(ReadLine(line))
         IN  /\ hist' = Append(hist, ReadEvent("insert_table", "", line))
             /\ out' = out \o r.out
             /\ IF r.index = -1
                THEN pc' = "menu" /\ UNCHANGED table
                ELSE pc' = "insert_record" /\ table' = tables[r.index + 1]
    /\ UNCHANGED << op, count, i, columnName, conditions, values, ids, newValue,
                    table1, table2, insertedID, foreignKeyColumn, values2,
                    stmts, rows, db, exitCode, boot, grid >>
    /\ UNCHANGED logs

\* The head of the loop over records: the next record starts with no values,
\* or, after the last one, the total is printed and the handler returns.
InsertRecord ==
    /\ pc = "insert_record"
    /\ IF i < count
       THEN /\ out' = Append(out, "RecordHeading")
            /\ values' = <<>>
            /\ stmts' = <<>>
            /\ hist' = OpeningReads(hist)
            /\ logFile' = <<>>
            /\ console' = <<>>
            /\ pc' = IF InsertColumns(table) = <<>> THEN "insert_exec" ELSE "insert_value"
       ELSE /\ out' = Append(out, "TotalAdded")
            /\ pc' = "menu"
            /\ UNCHANGED << values, stmts, hist, logs >>
    /\ UNCHANGED << op, count, table, i, columnName, conditions, ids, newValue,
                    table1, table2, insertedID, foreignKeyColumn, values2,
                    rows, db, exitCode, boot, grid >>

\* The value of the next column of record i+1.
InsertValue ==
    /\ pc = "insert_value"
    /\ \E line \in ValueLines :
         LET value  == ReadLine(line)
             column == InsertColumns(table)[Len(values) + 1]
         IN  /\ hist' = Append(hist, ReadEvent("insert_value", column, line))
             /\ IF ~WhiteListMatch(value)
                THEN /\ out' = Append(out, "ErrInvalidCharacters")
                     /\ pc' = "menu"
                     /\ UNCHANGED values
                ELSE IF IsNumericColumn(column) /\ Atoi(value).err
                THEN /\ out' = Append(out, "ErrNotANumber")
                     /\ pc' = "menu"
                     /\ UNCHANGED values
                ELSE /\ values' = Append(values, StrArg(value))
                     /\ pc' = IF Len(values) + 1 < Len(InsertColumns(table))
                              THEN "insert_value" ELSE "insert_exec"
                     /\ UNCHANGED out
    /\ UNCHANGED << op, count, table, i, columnName, conditions, ids, newValue,
                    table1, table2, insertedID, foreignKeyColumn, values2,
                    stmts, rows, db, exitCode, boot, grid >>
    /\ UNCHANGED logs

\* The INSERT whose failure is reported but does not end the batch.
InsertExecContinue ==
    /\ pc = "insert_exec"
    /\ \E ok \in BOOLEAN :
         /\ stmts' = Append(stmts, Call("Exec", InsertQuery(table), values, ok, 0))
         /\ logToFileAndScreen(
                << Message("InsertExecuting",
                           << QueryArg(InsertQuery(table)), ValuesArg(values) >>),
                   IF ok
                   THEN Message("InsertDone", << TextArg(Spell(table.Name)) >>)
                   ELSE Message("InsertError", << TextArg(ErrorText) >>) >>)
         /\ IF ~ok
            THEN /\ out' = Append(out, "ErrInsert")
                 /\ UNCHANGED rows
            ELSE /\ rows' = Append(rows, Row(table.Name, NextId(rows, table.Name)))
                 /\ out' = Append(out, "RecordAdded")
         /\ i' = i + 1
         /\ pc' = "insert_record"
    /\ UNCHANGED << op, count, table, columnName, conditions, values, ids, newValue,
                    table1, table2, insertedID, foreignKeyColumn, values2,
                    hist, db, exitCode, boot, grid >>

\* db.Exec of record i+1's INSERT: on success the loop goes on, on failure the
\* handler returns.
InsertExec ==
    /\ pc = "insert_exec"
    /\ \E ok \in BOOLEAN :
         /\ stmts' = Append(stmts, Call("Exec", InsertQuery(table), values, ok, 0))
         /\ logToFileAndScreen(
                << Message("InsertExecuting",
                           << QueryArg(InsertQuery(table)), ValuesArg(values) >>),
                   IF ok
                   THEN Message("InsertDone", << TextArg(Spell(table.Name)) >>)
                   ELSE Message("InsertError", << TextArg(ErrorText) >>) >>)
         /\ IF ~ok
            THEN /\ out' = Append(out, "ErrInsert")
                 /\ pc' = "menu"
                 /\ UNCHANGED << i, rows >>
            ELSE /\ rows' = Append(rows, Row(table.Name, NextId(rows, table.Name)))
                 /\ out' = Append(out, "RecordAdded")
                 /\ i' = i + 1
                 /\ pc' = "insert_record"
    /\ UNCHANGED << op, count, table, columnName, conditions, values, ids, newValue,
                    table1, table2, insertedID, foreignKeyColumn, values2,
                    hist, db, exitCode, boot, grid >>

----------------------------------------------------------------------------
\* insertRelatedData

RelatedCount == ReadCount("related_count", "related_choice")

\* Where the second table's loop stands once values2 holds `filled` values.
SecondStep(t2, filled) ==
    IF filled < Len(InsertColumns(t2)) THEN "related_second" ELSE "related_exec2"

\* The relation choice: the relation string is split into its two table names
\* and each is looked up in the catalog.
RelatedChoice ==
    /\ pc = "related_choice"
    /\ \E line \in ChoiceLines :
         LET choice == Atoi(ReadLine(line))
             tablesInRelation ==
                 IF ~choice.err /\ choice.n \in 1..Len(relatedTables)
                 THEN Split(relatedTables[choice.n], RelationSeparator)
                 ELSE <<>>
         IN  /\ hist' = Append(hist, ReadEvent("related_choice", "", line))
             /\ IF choice.err \/ choice.n < 0 \/ choice.n > Len(relatedTables)
                THEN /\ out' = Append(out, "ErrRelationChoice")
                     /\ pc' = "menu"
                     /\ UNCHANGED << table1, table2 >>
                ELSE IF choice.n = 0
                THEN /\ pc' = "menu"
                     /\ UNCHANGED << out, table1, table2 >>
                ELSE IF Len(tablesInRelation) # 2
                THEN /\ out' = Append(out, "ErrRelationFormat")
                     /\ pc' = "menu"
                     /\ UNCHANGED << table1, table2 >>
                ELSE /\ table1' = FindTable(tablesInRelation[1], 1, NoTable)
                     /\ table2' = FindTable(tablesInRelation[2], 1, NoTable)
                     /\ pc' = "related_record"
                     /\ UNCHANGED out
    /\ UNCHANGED << op, count, table, i, columnName, conditions, values, ids, newValue,
                    insertedID, foreignKeyColumn, values2, stmts, rows, db, exitCode, boot, grid >>
    /\ UNCHANGED logs

\* The head of the loop over records: the next pair of rows starts with fresh
\* locals, or, after the last one, the total is printed and the handler returns.
RelatedRecord ==
    /\ pc = "related_record"
    /\ IF i < count
       THEN /\ out' = Append(out, "RecordHeading")
            /\ values' = <<>>
            /\ values2' = <<>>
            /\ insertedID' = 0
            /\ foreignKeyColumn' = ""
            /\ stmts' = <<>>
            /\ hist' = OpeningReads(hist)
            /\ logFile' = <<>>
            /\ console' = <<>>
            /\ pc' = IF InsertColumns(table1) = <<>> THEN "related_exec1" ELSE "related_first"
       ELSE /\ out' = Append(out, "TotalRelatedAdded")
            /\ pc' = "menu"
            /\ UNCHANGED << values, values2, insertedID, foreignKeyColumn, stmts, hist, logs >>
    /\ UNCHANGED << op, count, table, i, columnName, conditions, ids, newValue,
                    table1, table2, rows, db, exitCode, boot, grid >>

\* The value of the next column of the first table, for record i+1.
RelatedValue1 ==
    /\ pc = "related_first"
    /\ \E line \in ValueLines :
         LET value  == ReadLine(line)
             column == InsertColumns(table1)[Len(values) + 1]
         IN  /\ hist' = Append(hist, ReadEvent("related_first", column, line))
             /\ IF ~WhiteListMatch(value)
                THEN /\ out' = Append(out, "ErrInvalidCharacters")
                     /\ pc' = "menu"
                     /\ UNCHANGED values
                ELSE IF IsNumericColumn1(column) /\ Atoi(value).err
                THEN /\ out' = Append(out, "ErrNotANumber")
                     /\ pc' = "menu"
                     /\ UNCHANGED values
                ELSE /\ values' = Append(values, StrArg(value))
                     /\ pc' = IF Len(values) + 1 < Len(InsertColumns(table1))
                              THEN "related_first" ELSE "related_exec1"
                     /\ UNCHANGED out
    /\ UNCHANGED << op, count, table, i, columnName, conditions, ids, newValue,
                    table1, table2, insertedID, foreignKeyColumn, values2,
                    stmts, rows, db, exitCode, boot, grid >>
    /\ UNCHANGED logs

\* The first insert whose failure is reported but does not end the record: the
\* second table follows with the zero id.
RelatedExec1IgnoreError ==
    /\ pc = "related_exec1"
    /\ \E ok \in BOOLEAN :
         LET id == IF ok THEN NextId(rows, table1.Name) ELSE 0
         IN  /\ stmts' = Append(stmts, Call("QueryRow", InsertReturningQuery(table1), values, ok, id))
             /\ logToFileAndScreen(
                    << Message("FirstExecuting",
                               << QueryArg(InsertReturningQuery(table1)), ValuesArg(values) >>) >>
                    \o IF ok THEN <<>>
                       ELSE << Message("FirstError", << TextArg(ErrorText) >>) >>)
             /\ rows' = IF ok THEN Append(rows, Row(table1.Name, id)) ELSE rows
             /\ insertedID' = id
             /\ foreignKeyColumn' = ForeignKeyColumn(table1, table2)
             /\ values2' = <<>>
             /\ out' = Append(out, IF ok THEN "AddedFirst" ELSE "ErrInsertFirst")
             /\ pc' = SecondStep(table2, 0)
    /\ UNCHANGED << op, count, table, i, columnName, conditions, values, ids, newValue,
                    table1, table2, hist, db, exitCode, boot, grid >>

\* db.QueryRow of the first INSERT ... RETURNING id and the Scan of the id;
\* on success the foreign-key column of the second table is resolved.
RelatedExec1 ==
    /\ pc = "related_exec1"
    /\ \/ /\ stmts' = Append(stmts, Call("QueryRow", InsertReturningQuery(table1), values, FALSE, 0))
          /\ logToFileAndScreen(
                 << Message("FirstExecuting",
                            << QueryArg(InsertReturningQuery(table1)), ValuesArg(values) >>),
                    Message("FirstError", << TextArg(ErrorText) >>) >>)
          /\ out' = Append(out, "ErrInsertFirst")
          /\ pc' = "menu"
          /\ UNCHANGED << insertedID, foreignKeyColumn, values2, rows >>
       \/ LET id == NextId(rows, table1.Name)
          IN  /\ stmts' = Append(stmts, Call("QueryRow", InsertReturningQuery(table1), values, TRUE, id))
              /\ logToFileAndScreen(
                     << Message("FirstExecuting",
                                << QueryArg(InsertReturningQuery(table1)), ValuesArg(values) >>) >>)
              /\ rows' = Append(rows, Row(table1.Name, id))
              /\ insertedID' = id
              /\ foreignKeyColumn' = ForeignKeyColumn(table1, table2)
              /\ values2' = <<>>
              /\ out' = Append(out, "AddedFirst")
              /\ pc' = SecondStep(table2, 0)
    /\ UNCHANGED << op, count, table, i, columnName, conditions, values, ids, newValue,
                    table1, table2, hist, db, exitCode, boot, grid >>

\* The foreign-key step binding the id of the first row the operation inserted.
RelatedForeignKeyStaleId ==
    /\ pc = "related_second"
    /\ InsertColumns(table2)[Len(values2) + 1] = foreignKeyColumn
    /\ values2' = Append(values2, IntArg(rows[1].id))
    /\ out' = Append(out, "AutoSet")
    /\ pc' = SecondStep(table2, Len(values2) + 1)
    /\ UNCHANGED << op, count, table, i, columnName, conditions, values, ids, newValue,
                    table1, table2, insertedID, foreignKeyColumn,
                    stmts, hist, rows, db, exitCode, boot, grid >>
    /\ UNCHANGED logs

\* The foreign-key search of insertRelatedData on its own: the two loops over
\* the second table's columns, followed by the second table's prompts.
ResolveForeignKey ==
    /\ pc = "related_resolve"
    /\ foreignKeyColumn' = ForeignKeyColumn(table1, table2)
    /\ values2' = <<>>
    /\ pc' = SecondStep(table2, 0)
    /\ UNCHANGED << op, count, table, i, columnName, conditions, values, ids, newValue,
                    table1, table2, insertedID,
                    stmts, hist, rows, out, db, exitCode, boot, grid >>
    /\ UNCHANGED logs

\* The second table's loop at the foreign-key column: the id is bound, nothing is read.
RelatedForeignKey ==
    /\ pc = "related_second"
    /\ InsertColumns(table2)[Len(values2) + 1] = foreignKeyColumn
    /\ values2' = Append(values2, IntArg(insertedID))
    /\ out' = Append(out, "AutoSet")
    /\ pc' = SecondStep(table2, Len(values2) + 1)
    /\ UNCHANGED << op, count, table, i, columnName, conditions, values, ids, newValue,
                    table1, table2, insertedID, foreignKeyColumn,
                    stmts, hist, rows, db, exitCode, boot, grid >>
    /\ UNCHANGED logs

\* The second table's loop at any other column: the value is read and checked.
RelatedValue2 ==
    /\ pc = "related_second"
    /\ InsertColumns(table2)[Len(values2) + 1] # foreignKeyColumn
    /\ \E line \in ValueLines :
         LET value  == ReadLine(line)
             column == InsertColumns(table2)[Len(values2) + 1]
         IN  /\ hist' = Append(hist, ReadEvent("related_second", column, line))
             /\ IF ~WhiteListMatch(value)
                THEN /\ out' = Append(out, "ErrInvalidCharacters")
                     /\ pc' = "menu"
                     /\ UNCHANGED values2
                ELSE IF IsNumericColumn2(column) /\ Atoi(value).err
                THEN /\ out' = Append(out, "ErrNotANumber")
                     /\ pc' = "menu"
                     /\ UNCHANGED values2
                ELSE /\ values2' = Append(values2, StrArg(value))
                     /\ pc' = SecondStep(table2, Len(values2) + 1)
                     /\ UNCHANGED out
    /\ UNCHANGED << op, count, table, i, columnName, conditions, values, ids, newValue,
                    table1, table2, insertedID, foreignKeyColumn,
                    stmts, rows, db, exitCode, boot, grid >>
    /\ UNCHANGED logs

\* The second insert followed, when it fails, by a DELETE of the first row.
RelatedExec2Compensating ==
    /\ pc = "related_exec2"
    /\ \E ok \in BOOLEAN :
         /\ logToFileAndScreen(
                << Message("SecondExecuting",
                           << QueryArg(InsertQuery(table2)), ValuesArg(values2) >>),
                   IF ok
                   THEN Message("RelatedDone", << TextArg(RelationText(table1, table2)) >>)
                   ELSE Message("SecondError", << TextArg(ErrorText) >>) >>)
         /\ IF ~ok
            THEN /\ stmts' = stmts \o
                       << Call("Exec", InsertQuery(table2), values2, FALSE, 0),
                          Call("Exec", << Kw("DELETE FROM"), Nm(table1.Name), Kw("WHERE"),
                                          Kw("id"), Kw("="), Ph(1) >>,
                               << IntArg(insertedID) >>, TRUE, 0) >>
                 /\ rows' = SubSeq(rows, 1, Len(rows) - 1)
                 /\ out' = Append(out, "ErrInsertSecond")
                 /\ pc' = "menu"
                 /\ UNCHANGED i
            ELSE /\ stmts' = Append(stmts, Call("Exec", InsertQuery(table2), values2, TRUE, 0))
                 /\ rows' = Append(rows, Row(table2.Name, NextId(rows, table2.Name)))
                 /\ out' = Append(out, "AddedSecond")
                 /\ i' = i + 1
                 /\ pc' = "related_record"
    /\ UNCHANGED << op, count, table, columnName, conditions, values, ids, newValue,
                    table1, table2, insertedID, foreignKeyColumn, values2,
                    hist, db, exitCode, boot, grid >>

\* The second insert whose failure goes on to the next record instead of returning.
RelatedExec2Continue ==
    /\ pc = "related_exec2"
    /\ \E ok \in BOOLEAN :
         /\ stmts' = Append(stmts, Call("Exec", InsertQuery(table2), values2, ok, 0))
         /\ logToFileAndScreen(
                << Message("SecondExecuting",
                           << QueryArg(InsertQuery(table2)), ValuesArg(values2) >>),
                   IF ok
                   THEN Message("RelatedDone", << TextArg(RelationText(table1, table2)) >>)
                   ELSE Message("SecondError", << TextArg(ErrorText) >>) >>)
         /\ IF ~ok
            THEN /\ out' = Append(out, "ErrInsertSecond")
                 /\ UNCHANGED rows
            ELSE /\ rows' = Append(rows, Row(table2.Name, NextId(rows, table2.Name)))
                 /\ out' = Append(out, "AddedSecond")
         /\ i' = i + 1
         /\ pc' = "related_record"
    /\ UNCHANGED << op, count, table, columnName, conditions, values, ids, newValue,
                    table1, table2, insertedID, foreignKeyColumn, values2,
                    hist, db, exitCode, boot, grid >>

\* db.Exec of the second INSERT: on success the loop goes on, on failure the
\* handler returns.
RelatedExec2 ==
    /\ pc = "related_exec2"
    /\ \E ok \in BOOLEAN :
         /\ stmts' = Append(stmts, Call("Exec", InsertQuery(table2), values2, ok, 0))
         /\ logToFileAndScreen(
                << Message("SecondExecuting",
                           << QueryArg(InsertQuery(table2)), ValuesArg(values2) >>),
                   IF ok
                   THEN Message("RelatedDone", << TextArg(RelationText(table1, table2)) >>)
                   ELSE Message("SecondError", << TextArg(ErrorText) >>) >>)
         /\ IF ~ok
            THEN /\ out' = Append(out, "ErrInsertSecond")
                 /\ pc' = "menu"
                 /\ UNCHANGED << i, rows >>
            ELSE /\ rows' = Append(rows, Row(table2.Name, NextId(rows, table2.Name)))
                 /\ out' = Append(out, "AddedSecond")
                 /\ i' = i + 1
                 /\ pc' = "related_record"
    /\ UNCHANGED << op, count, table, columnName, conditions, values, ids, newValue,
                    table1, table2, insertedID, foreignKeyColumn, values2,
                    hist, db, exitCode, boot, grid >>

\* The search applied to every ordered pair of catalog tables: the first insert
\* has returned an id and the search is about to run.
ResolverInit ==
    /\ pc = "related_resolve"
    /\ op = "related"
    /\ \E first \in 1..Len(tables), second \in 1..Len(tables) :
         /\ table1 = tables[first]
         /\ table2 = tables[second]
    /\ insertedID \in 1..MaxCount
    /\ count = 1
    /\ table = NoTable
    /\ i = 0
    /\ columnName = ""
    /\ conditions = <<>>
    /\ values = <<>>
    /\ ids = <<>>
    /\ newValue = <<>>
    /\ foreignKeyColumn = ""
    /\ values2 = <<>>
    /\ stmts = <<>>
    /\ hist = <<>>
    /\ rows = <<>>
    /\ out = <<>>
    /\ db = "open"
    /\ exitCode = -1
    /\ boot = << "PingOk" >>
    /\ columnWidths = <<>>
    /\ allRows = <<>>
    /\ fetched = 0
    /\ screen = <<>>
    /\ logFile = <<>>
    /\ console = <<>>

ResolverNext ==
    \/ ResolveForeignKey
    \/ RelatedForeignKey
    \/ RelatedValue2

ResolverSpec == ResolverInit /\ [][ResolverNext]_vars

----------------------------------------------------------------------------
\* viewTable

\* The table choice of viewTable: a bad number prompts again, 0 returns.
ViewSelect ==
    /\ pc = "view_select"
    /\ \E line \in ChoiceLines :
         LET choice == Atoi(ReadLine(line))
         IN  /\ hist' = Append(hist, ReadEvent("view_select", "", line))
             /\ IF choice.err \/ choice.n < 0 \/ choice.n > Len(tables)
                THEN /\ Len(out) < MaxViewRetries
                     /\ out' = Append(out, "ErrTableChoice")
                     /\ UNCHANGED << pc, table >>
                ELSE IF choice.n = 0
                THEN /\ pc' = "menu"
                     /\ UNCHANGED << out, table >>
                ELSE /\ table' = tables[choice.n]
                     /\ pc' = "view_query"
                     /\ UNCHANGED out
    /\ UNCHANGED << op, count, i, columnName, conditions, values, ids, newValue,
                    table1, table2, insertedID, foreignKeyColumn, values2,
                    stmts, rows, db, exitCode, boot, grid >>
    /\ UNCHANGED logs

\* The first db.Query: a failure goes back to the table choice; on success the
\* widths start from the column names.
ViewQueryExec ==
    /\ pc = "view_query"
    /\ \E ok \in BOOLEAN :
         /\ stmts' = Append(stmts, Call("Query", ViewQuery(table.Name), <<>>, ok, 0))
         /\ logToFileAndScreen(
                << Message("ViewExecuting", << QueryArg(ViewQuery(table.Name)) >>) >>
                \o IF ok THEN <<>>
                   ELSE << Message("ViewError", << TextArg(ErrorText) >>) >>)
         /\ IF ok
            THEN /\ columnWidths' = HeaderWidths(table.Columns)
                 /\ allRows' = <<>>
                 /\ fetched' = <<>>
                 /\ pc' = "view_rows"
                 /\ UNCHANGED out
            ELSE /\ Len(out) < MaxViewRetries
                 /\ pc' = "view_select"
                 /\ out' = Append(out, "ErrViewQuery")
                 /\ UNCHANGED << columnWidths, allRows, fetched >>
    /\ UNCHANGED << op, locals, hist, rows, db, exitCode, boot, screen >>

\* One round of the loop over rows.Next(): the result set is exhausted, or it
\* hands out a row, which is kept and widens the columns unless its Scan
\* fails, which is reported.
ViewRow ==
    /\ pc = "view_rows"
    /\ \/ /\ pc' = "view_requery"
          /\ UNCHANGED << columnWidths, allRows, fetched, out, logs >>
       \/ /\ Len(fetched) < MaxRows
          /\ \E row \in ResultRows(Len(table.Columns)) :
               LET rowData == [k \in 1..Len(row.vals) |-> CellString(row.vals[k])]
               IN  /\ fetched' = Append(fetched, row)
                   /\ IF row.ok
                      THEN /\ columnWidths' = Widen(columnWidths, rowData)
                           /\ allRows' = Append(allRows, rowData)
                           /\ UNCHANGED << out, logs >>
                      ELSE /\ out' = Append(out, "ErrScan")
                           /\ logToFileAndScreen(
                                  << Message("ScanError", << TextArg(ErrorText) >>) >>)
                           /\ UNCHANGED << columnWidths, allRows >>
          /\ UNCHANGED pc
    /\ UNCHANGED << op, locals, stmts, hist, rows, db, exitCode, boot, screen >>

\* The second db.Query, whose error is dropped: the grid is printed from the
\* rows already read, and the deferred rows.Close() runs at the return, on a nil
\* handle when this query failed.
ViewRequery ==
    /\ pc = "view_requery"
    /\ \E ok \in BOOLEAN :
         /\ stmts' = Append(stmts, Call("Query", ViewQuery(table.Name), <<>>, ok, 0))
         /\ screen' = GridLines(table.Columns, columnWidths, allRows)
         /\ out' = Append(out, "TableListed")
         /\ logToFileAndScreen(<< Message("ViewFound",
                << TextArg(Spell(table.Name)), TextArg(Itoa(Len(allRows))) >>) >>)
         /\ IF ok
            THEN pc' = "menu" /\ UNCHANGED exitCode
            ELSE pc' = "crashed" /\ exitCode' = 2
    /\ UNCHANGED << op, locals, hist, rows, db, boot, columnWidths, allRows, fetched >>

----------------------------------------------------------------------------

Next ==
    \/ Startup \/ Ping
    \/ ShowMenu \/ MainMenu
    \/ ViewSelect \/ ViewQueryExec \/ ViewRow \/ ViewRequery
    \/ FilterCount \/ FilterTable \/ FilterColumn \/ FilterValue \/ FilterQueryExec \/ FilterRow \/ FilterPrint
    \/ UpdateCount \/ UpdateTable \/ UpdateId \/ UpdateColumn \/ UpdateValue \/ UpdateExec
    \/ InsertCount \/ InsertTable \/ InsertRecord \/ InsertValue \/ InsertExec
    \/ RelatedCount \/ RelatedChoice \/ RelatedRecord \/ RelatedValue1 \/ RelatedExec1
    \/ RelatedForeignKey \/ RelatedValue2 \/ RelatedExec2

Spec == Init /\ [][Next]_vars

----------------------------------------------------------------------------
\* Properties

\* The prompts at which a free-text value is read.
ValuePrompts ==
    { "filter_value", "update_value", "insert_value", "related_first", "related_second" }

\* The messages of the two validation rules.
ValidationErrors == { "ErrInvalidCharacters", "ErrNotANumber" }

\* The characters a value may be made of: Latin and Cyrillic letters, digits,
\* white space, hyphen, period.
AllowedChars ==
    LatinLetters \cup CyrillicLetters \cup Digits \cup SpaceChars \cup { "-", "." }

\* A typed line whose value is empty (nothing but white space) or holds a
\* character outside the allowed set.
Unacceptable(line) ==
    \/ \A k \in 1..Len(line) : line[k] \in SpaceChars
    \/ \E k \in 1..Len(line) : line[k] \notin AllowedChars

\* The read at position k of the console log ended the operation: it is the
\* last read, control is back at the menu, and the last message is `tag`.
EndedBy(k, tags) ==
    /\ k = Len(hist)
    /\ pc = "menu"
    /\ out # <<>>
    /\ Last(out) \in tags

\* The arguments of every database call of the operation.
AllArgs == UNION { { stmts[c].args[a] : a \in 1..Len(stmts[c].args) } : c \in 1..Len(stmts) }

\* The arguments that carry a typed value: the first one of an UPDATE (the
\* others are ids), and every text argument of the other statements.
ValueArgs ==
    IF op = "update"
    THEN { stmts[c].args[1] : c \in 1..Len(stmts) }
    ELSE { v \in AllArgs : v.t = "string" }

\* C1: at every value prompt of Filter, Update, Insert and both tables of
\* InsertRelated, a value that is empty or holds a character outside the
\* allowed set is rejected: the operation ends there, back at the menu with the
\* invalid-characters message, and no database call carries that value.
C1_InvalidValueRejected ==
    /\ \A k \in 1..Len(hist) :
           (hist[k].at \in ValuePrompts /\ Unacceptable(hist[k].line)) =>
               EndedBy(k, { "ErrInvalidCharacters" })
    /\ (hist # <<>> /\ Last(hist).at \in ValuePrompts /\ Unacceptable(Last(hist).line)) =>
           StrArg(TrimSpace(Last(hist).line)) \notin AllArgs
    /\ \A v \in ValueArgs : ~Unacceptable(v.s)

\* A value with a forbidden character is rejected at the second table of
\* InsertRelated, after the first insert went through.
C1_Witness ==
    /\ op = "related"
    /\ pc = "menu"
    /\ hist # <<>>
    /\ Last(hist).at = "related_second"
    /\ Last(hist).line = << "a", ";" >>
    /\ Len(stmts) = 1
    /\ stmts[1].ok

\* A numeric-named column, and a value that parses as an integer.
NumericColumns ==
    { "price", "quantity", "founded_year", "category_id", "manufacturer_id", "component_id" }

IsInteger(value) ==
    LET body == IF value # <<>> /\ Head(value) \in { "+", "-" } THEN Tail(value) ELSE value
    IN  body # <<>> /\ \A k \in 1..Len(body) : body[k] \in Digits

\* C2: at every value prompt of the five places, for a column named price,
\* quantity, founded_year, category_id, manufacturer_id or component_id, a
\* value that does not parse as an integer is rejected there (the operation
\* ends at that read, before any statement runs with it), and a value of
\* allowed characters that parses as an integer is not rejected.
C2_NumericColumnsChecked ==
    \A k \in 1..Len(hist) :
        (hist[k].at \in ValuePrompts /\ hist[k].column \in NumericColumns) =>
            LET value == TrimSpace(hist[k].line)
            IN  /\ ~IsInteger(value) => EndedBy(k, ValidationErrors)
                /\ (IsInteger(value) /\ ~Unacceptable(hist[k].line))
                       => ~EndedBy(k, ValidationErrors)

\* The placeholder numbers of an SQL text, in the order they appear.
PlaceholderNumbers(sql) ==
    LET phs == SelectSeq(sql, LAMBDA t : t.k = "ph")
    IN  [j \in 1..Len(phs) |-> phs[j].n]

\* C3: in every statement sent to the database, the placeholders of the text
\* are $1, $2, ..., $n in this order, each once, where n is the number of
\* values in the parameter list.
C3_PlaceholdersMatchArgs ==
    \A c \in 1..Len(stmts) :
        PlaceholderNumbers(stmts[c].sql) = [j \in 1..Len(stmts[c].args) |-> j]

\* An UPDATE with several ids, and the second insert of InsertRelated, were sent.
C3_Witness ==
    \/ /\ op = "update" /\ Len(stmts) = 1 /\ Len(stmts[1].args) = MaxCount + 1
    \/ /\ op = "related" /\ Len(stmts) = 2 /\ Len(stmts[2].args) = 5

\* The fixed words of the statement texts, and the names of the catalog.
FixedWords ==
    { "SELECT", "*", "FROM", "WHERE", "AND", "ORDER BY", "id", "UPDATE", "SET", "=",
      "IN", "(", ")", ",", "INSERT INTO", "VALUES", "RETURNING" }

CatalogNames ==
    { tables[t].Name : t \in 1..Len(tables) }
        \cup UNION { { tables[t].Columns[c] : c \in 1..Len(tables[t].Columns) }
                     : t \in 1..Len(tables) }

\* C4: the text of every statement sent to the database is made of fixed
\* words, $N placeholders and names of the static catalog only; nothing the
\* operator typed is part of the text (typed text would be a token of kind
\* "text", carrying the characters typed).
C4_NoTypedTextInSql ==
    \A c \in 1..Len(stmts) : \A j \in 1..Len(stmts[c].sql) :
        LET tok == stmts[c].sql[j]
        IN  /\ tok.k \in { "kw", "name", "ph" }
            /\ tok.k = "kw" => tok.name \in FixedWords
            /\ tok.k = "name" => tok.name \in CatalogNames
            /\ tok.text = <<>>

\* An UPDATE with typed ids and a typed value was sent.
C4_Witness ==
    /\ op = "update"
    /\ Len(stmts) = 1
    /\ Len(ids) = MaxCount
    /\ newValue = TrimSpace(TextLine)
    /\ stmts[1].args[1] = StrArg(newValue)

\* The reads of the operation at one prompt, in order.
ReadsAt(prompt) == SelectSeq(hist, LAMBDA e : e.at = prompt)

\* The number a menu line stands for (a line of digits).
Chosen(line) == DigitsValue(TrimSpace(line))

\* How many of the filter values read were acceptable.
AcceptedFilterValues ==
    Len(SelectSeq(ReadsAt("filter_value"), LAMBDA e : ~Unacceptable(e.line)))

\* "<col_1> = $1 AND ... AND <col_n> = $n" for the columns chosen by number.
RECURSIVE ExpectedWhere(_, _)
ExpectedWhere(choices, n) ==
    IF n = 0 THEN <<>>
    ELSE ExpectedWhere(choices, n - 1)
             \o (IF n > 1 THEN << Kw("AND") >> ELSE <<>>)
             \o << Nm(table.Columns[Chosen(choices[n].line)]), Kw("="), Ph(n) >>

\* C5: a Filter whose N >= 1 pairs were all accepted runs exactly one SELECT,
\* whose WHERE clause is the N conditions "<col_i> = $i" joined by AND in the
\* order entered, with the i-th value entered as parameter i; a Filter with a
\* cancelled or rejected pair runs no statement at all.
C5_FilterStatement ==
    op = "filter" =>
        /\ Len(stmts) <= 1
        /\ AcceptedFilterValues < count => stmts = <<>>
        /\ (pc = "menu" /\ count >= 1 /\ AcceptedFilterValues = count) => Len(stmts) = 1
        /\ stmts # <<>> =>
              /\ count >= 1
              /\ AcceptedFilterValues = count
              /\ stmts[1].call = "Query"
              /\ stmts[1].sql =
                     << Kw("SELECT"), Kw("*"), Kw("FROM"), Nm(table.Name), Kw("WHERE") >>
                         \o ExpectedWhere(ReadsAt("filter_column"), count)
                         \o << Kw("ORDER BY"), Kw("id") >>
              /\ stmts[1].args =
                     [k \in 1..count |-> StrArg(TrimSpace(ReadsAt("filter_value")[k].line))]

\* A Filter with two conditions on different columns ran its SELECT.
C5_Witness ==
    /\ op = "filter"
    /\ pc = "menu"
    /\ Len(stmts) = 1
    /\ Len(stmts[1].args) = 2
    /\ stmts[1].args[1] # stmts[1].args[2]
    /\ conditions[1][1] # conditions[2][1]

\* "$2, $3, ..., $k+1"
RECURSIVE ExpectedIdList(_)
ExpectedIdList(k) ==
    IF k = 1 THEN << Ph(2) >>
    ELSE ExpectedIdList(k - 1) \o << Kw(","), Ph(k + 1) >>

\* C6: an Update with one id runs "UPDATE <table> SET <col> = $1 WHERE id = $2"
\* with parameters [value, id]; with k > 1 ids it runs "... WHERE id IN ($2,
\* ..., $k+1)" with parameters [value, id1, ..., idk] in the order entered.
C6_UpdateStatement ==
    (op = "update" /\ stmts # <<>>) =>
        LET idReads == ReadsAt("update_id")
            k       == Len(idReads)
            column  == Tail(table.Columns)[Chosen(ReadsAt("update_column")[1].line)]
            value   == TrimSpace(ReadsAt("update_value")[1].line)
        IN  /\ Len(stmts) = 1
            /\ k = count
            /\ stmts[1].call = "Exec"
            /\ stmts[1].sql =
                   << Kw("UPDATE"), Nm(table.Name), Kw("SET"), Nm(column), Kw("="), Ph(1),
                      Kw("WHERE"), Kw("id") >>
                       \o (IF k = 1 THEN << Kw("="), Ph(2) >>
                           ELSE << Kw("IN"), Kw("(") >> \o ExpectedIdList(k) \o << Kw(")") >>)
            /\ stmts[1].args =
                   << StrArg(value) >> \o [j \in 1..k |-> StrArg(TrimSpace(idReads[j].line))]
            /\ Len(PlaceholderNumbers(stmts[1].sql)) = 1 + k

\* An Update of several different ids was sent.
C6_Witness ==
    /\ op = "update"
    /\ Len(stmts) = 1
    /\ count > 1
    /\ ids[1] # ids[2]
    /\ stmts[1].ok

\* The three configured relations and the foreign-key column of each.
ConfiguredRelations ==
    { << "categories", "components" >>, << "manufacturers", "components" >>,
      << "components", "stock" >> }

ExpectedForeignKey(first, second) ==
    CASE first = "categories" /\ second = "components"    -> "category_id"
      [] first = "manufacturers" /\ second = "components" -> "manufacturer_id"
      [] first = "components" /\ second = "stock"         -> "component_id"
      [] OTHER -> "none"

\* C7: the foreign-key column resolved in InsertRelated is category_id for
\* (categories, components), manufacturer_id for (manufacturers, components)
\* and component_id for (components, stock).
C7_ForeignKeyOfRelation ==
    op = "related" =>
        /\ table1 # NoTable => << table1.Name, table2.Name >> \in ConfiguredRelations
        /\ (pc \in { "related_second", "related_exec2" } \/ foreignKeyColumn # "") =>
               foreignKeyColumn = ExpectedForeignKey(table1.Name, table2.Name)

\* The column was resolved for manufacturers and components.
C7_Witness ==
    /\ op = "related"
    /\ pc = "related_second"
    /\ table1.Name = "manufacturers"
    /\ table2.Name = "components"
    /\ foreignKeyColumn = "manufacturer_id"

\* The rows of one table the operation has inserted so far.
RowsOf(tableName) == { r \in 1..Len(rows) : rows[r].table = tableName }

\* The position of a column in a list (0 when absent).
RECURSIVE Position(_, _)
Position(column, columns) ==
    IF columns = <<>> THEN 0
    ELSE IF Head(columns) = column THEN 1
    ELSE IF Position(column, Tail(columns)) = 0 THEN 0
    ELSE 1 + Position(column, Tail(columns))

\* C8: in InsertRelated, the second insert of a record follows the successful
\* first insert of that same record and binds, at the foreign-key column, the
\* id that first insert returned; the operator is never asked for that column,
\* and is asked for every other non-id column of the second table, whose typed
\* values are the other parameters.
C8_ForeignKeyBoundToReturnedId ==
    (op = "related" /\ table2 # NoTable) =>
        LET fk      == ExpectedForeignKey(table1.Name, table2.Name)
            columns == Tail(table2.Columns)
            others  == SelectSeq(columns, LAMBDA c : c # fk)
            reads   == ReadsAt("related_second")
        IN  /\ \A c \in 1..Len(stmts) :
                   stmts[c].call = "Exec" =>
                       /\ c = 2
                       /\ stmts[1].call = "QueryRow"
                       /\ stmts[1].ok
                       /\ stmts[1].id = NextId(SubSeq(rows, 1, 2 * (IF stmts[2].ok THEN i - 1 ELSE i)),
                                               table1.Name)
                       /\ Len(stmts[2].args) = Len(columns)
                       /\ stmts[2].args[Position(fk, columns)] = IntArg(stmts[1].id)
                       /\ \A m \in 1..Len(others) :
                              stmts[2].args[Position(others[m], columns)]
                                  = StrArg(TrimSpace(reads[m].line))
            /\ Len(reads) <= Len(others)
            /\ \A k \in 1..Len(reads) : reads[k].column = others[k]
            /\ pc = "related_exec2" => Len(reads) = Len(others)

\* The second record went through, bound to another id than the first record's.
C8_Witness ==
    /\ op = "related"
    /\ i = 2
    /\ Len(stmts) = 2
    /\ stmts[1].ok /\ stmts[2].ok
    /\ stmts[1].id # rows[1].id
    /\ stmts[2].args[Position(foreignKeyColumn, Tail(table2.Columns))] = IntArg(stmts[1].id)

\* C9: when a record of InsertRelated fails after its first insert succeeded
\* (the second insert fails, or a value of the second table is rejected), the
\* row of that first insert stays: only INSERT statements are ever sent, no
\* inserted row is taken back, and the operation ends with the first table
\* holding one more inserted row than the second.
C9_FirstInsertNotRolledBack ==
    op = "related" =>
        LET firstDone  == stmts # <<>> /\ stmts[1].ok
            secondDone == Len(stmts) = 2 /\ stmts[2].ok
        IN  /\ \A c \in 1..Len(stmts) :
                   /\ stmts[c].sql[1] = Kw("INSERT INTO")
                   /\ stmts[c].sql[2] = Nm(IF stmts[c].call = "QueryRow" THEN table1.Name
                                           ELSE table2.Name)
            /\ table1 # NoTable =>
                   /\ Cardinality(RowsOf(table2.Name)) = i
                   /\ Cardinality(RowsOf(table1.Name))
                          = IF firstDone /\ ~secondDone THEN i + 1 ELSE i
            /\ (/\ pc = "menu"
                /\ out # <<>>
                /\ \/ Last(out) = "ErrInsertSecond"
                   \/ Last(out) \in ValidationErrors /\ Last(hist).at = "related_second") =>
                   /\ firstDone
                   /\ Last(out) = "ErrInsertSecond" => Len(stmts) = 2 /\ ~stmts[2].ok
                   /\ Last(out) \in ValidationErrors => Len(stmts) = 1
                   /\ Last(rows) = Row(table1.Name, insertedID)
                   /\ Cardinality(RowsOf(table1.Name)) = Cardinality(RowsOf(table2.Name)) + 1

\* The second insert failed after the first one had succeeded.
C9_Witness ==
    /\ op = "related"
    /\ pc = "menu"
    /\ out # <<>>
    /\ Last(out) = "ErrInsertSecond"
    /\ Len(stmts) = 2
    /\ stmts[1].ok
    /\ ~stmts[2].ok
    /\ Last(rows) = Row(table1.Name, insertedID)

\* The messages that report a failed record of InsertRelated.
RelatedErrors == ValidationErrors \cup { "ErrInsertFirst", "ErrInsertSecond" }

\* C10: in InsertRelated, once a record fails (a rejected value, or either
\* insert), the operation is back at the menu with that failure as the last
\* thing it did: the summary is not printed, the failed record is not counted,
\* no later record is started, and the rows inserted are those of the records
\* before it plus, at most, the first row of the failed one.
C10_FailureAbortsBatch ==
    (op = "related" /\ \E m \in 1..Len(out) : out[m] \in RelatedErrors) =>
        /\ pc = "menu"
        /\ \A m \in 1..Len(out) : out[m] \in RelatedErrors => m = Len(out)
        /\ \A m \in 1..Len(out) : out[m] # "TotalRelatedAdded"
        /\ i < count
        /\ Cardinality({ m \in 1..Len(out) : out[m] = "RecordHeading" }) = i + 1
        /\ Len(stmts) <= 2
        /\ Len(stmts) = 2 => ~stmts[2].ok
        /\ Len(rows) = 2 * i + (IF stmts # <<>> /\ stmts[1].ok THEN 1 ELSE 0)

\* The first insert of the second record failed after a complete first record.
C10_Witness ==
    /\ op = "related"
    /\ pc = "menu"
    /\ count = 2
    /\ i = 1
    /\ Len(rows) = 2
    /\ Len(stmts) = 1
    /\ ~stmts[1].ok
    /\ Last(out) = "ErrInsertFirst"

\* The messages that report an input the operator typed wrongly: the two
\* validation rules, a bad id, a bad count, a bad table, column, relation or
\* menu number.
InputErrors ==
    ValidationErrors \cup
    { "ErrIdNotNumber", "ErrCount", "ErrTableChoice", "ErrColumnChoice",
      "ErrRelationChoice", "ErrMenuDigit", "ErrMenuRange" }

\* The step printed one of the input errors.
ReportsInputError == Len(out') = Len(out) + 1 /\ Last(out') \in InputErrors

\* C11 as stated: a step that reports an input error leaves the process
\* running and is followed by the main menu.
C11_InputErrorReturnsToMenu ==
    [][ReportsInputError => (exitCode' = -1 /\ pc' = "menu")]_vars

\* C11, amended: a step that reports an input error leaves the process running
\* with its connection open; in Filter, Update, Insert, InsertRelated and at
\* the menu itself the main menu follows, and in View the table choice is
\* asked again.
C11_InputErrorKeepsSession ==
    [][ReportsInputError =>
           /\ exitCode' = -1
           /\ db' = "open"
           /\ pc' = IF pc = "view_select" THEN "view_select" ELSE "menu"]_vars

\* A non-numeric id ended an Update and the menu is next.
C11_Witness ==
    /\ op = "update"
    /\ pc = "menu"
    /\ exitCode = -1
    /\ out # <<>>
    /\ Last(out) = "ErrIdNotNumber"

\* The main menu has been entered: one connection check succeeded.
MenuEntered == \E k \in 1..Len(boot) : boot[k] = "PingOk"

\* C12: a menu input that is not an integer in 0..5 dispatches nothing, sends
\* nothing to the database and is followed by the menu; 0 closes the
\* connection and exits with status 0; and once the menu has been entered the
\* process ends in no other way.
C12_MenuDispatchAndExit ==
    /\ (hist # <<>> /\ Last(hist).at = "choice") =>
           LET choice == Atoi(TrimSpace(Last(hist).line))
           IN  /\ (choice.err \/ choice.n \notin 0..5) =>
                      /\ pc = "menu"
                      /\ op = ""
                      /\ stmts = <<>>
                      /\ exitCode = -1
               /\ (~choice.err /\ choice.n = 0) =>
                      /\ db = "closed"
                      /\ exitCode = 0
    /\ (MenuEntered /\ exitCode # -1) =>
           /\ exitCode = 0
           /\ db = "closed"
           /\ hist # <<>>
           /\ Last(hist).at = "choice"
           /\ Atoi(TrimSpace(Last(hist).line)) = [err |-> FALSE, n |-> 0]

\* The pings of the startup log, in order.
Pings == SelectSeq(boot, LAMBDA e : e \in { "PingOk", "PingFail" })

\* C13: the connection check runs at most maxRetries (3) times and stops at
\* the first success; the menu is entered exactly when an attempt succeeded;
\* after three failures the process is over with status 1 and no menu; each
\* backoff wait stands between a failed attempt and the next attempt; and
\* nothing is added to the startup log once the menu is entered.
C13_PingRetries ==
    /\ Len(Pings) <= 3
    /\ \A k \in 1..Len(boot) : boot[k] = "PingOk" => k = Len(boot)
    /\ (pc \notin { "start", "ping", "exit" }) => MenuEntered
    /\ MenuEntered => pc \notin { "start", "ping" }
    /\ (MenuEntered /\ pc = "exit") => exitCode = 0
    /\ (Len(Pings) = 3 /\ ~MenuEntered) => (pc = "exit" /\ exitCode = 1)
    /\ \A k \in 1..Len(boot) :
           boot[k] = "Sleep2" =>
               /\ k > 1
               /\ boot[k - 1] = "PingFail"
               /\ IF k < Len(boot) THEN boot[k + 1] \in { "PingOk", "PingFail" }
                  ELSE pc = "ping"

\* The third attempt succeeded after two failures and two waits.
C13_Witness ==
    /\ pc = "menu"
    /\ boot = << "Sleep5", "PingFail", "Sleep2", "PingFail", "Sleep2", "PingOk" >>

\* The printed lines that are not empty, and the rows whose Scan succeeded.
PrintedLines == SelectSeq(screen, LAMBDA l : l.kind # "blank")
ScannedRows == SelectSeq(fetched, LAMBDA r : r.ok)

\* C14: a table view prints the header line, then the divider, then one line
\* per row read, then the summary line, whose count is the number of data lines
\* printed; for an empty table these are the header, the divider and a count of 0.
C14_ViewPrintsGrid ==
    (op = "view" /\ out # <<>> /\ Last(out) = "TableListed") =>
        /\ Len(PrintedLines) = Len(ScannedRows) + 3
        /\ PrintedLines[1].kind = "header"
        /\ PrintedLines[2].kind = "divider"
        /\ \A k \in 3..(Len(PrintedLines) - 1) : PrintedLines[k].kind = "row"
        /\ Last(PrintedLines).kind = "summary"
        /\ Atoi(Last(PrintedLines).text) =
               [err |-> FALSE,
                n   |-> Cardinality({ k \in 1..Len(screen) : screen[k].kind = "row" })]
        /\ fetched = <<>> =>
               /\ Len(PrintedLines) = 3
               /\ Last(PrintedLines).text = << "0" >>

\* An empty table was listed.
C14_Witness ==
    /\ op = "view"
    /\ pc = "menu"
    /\ out # <<>>
    /\ Last(out) = "TableListed"
    /\ fetched = <<>>
    /\ Len(screen) = 5

\* The largest number of a non-empty finite set of numbers.
MaxOf(S) == CHOOSE m \in S : \A x \in S : x <= m

\* The length of the cell string of a scanned value (0 for NULL).
CellLength(val) == IF val.null THEN 0 ELSE Len(val.text)

\* C15: in View and Filter, once the rows of the result have been read, the
\* width of each column is the largest of the length of its header and the
\* lengths of the cell strings of that column in the rows kept (a NULL cell
\* counting as length 0).
C15_ColumnWidthIsMaximum ==
    (pc \in { "view_requery", "filter_print" } \/ screen # <<>>) =>
        /\ Len(columnWidths) = Len(table.Columns)
        /\ \A k \in 1..Len(table.Columns) :
               columnWidths[k] =
                   MaxOf({ Len(Spell(table.Columns[k])) } \cup
                         { CellLength(ScannedRows[r].vals[k]) : r \in 1..Len(ScannedRows) })

\* A filter on categories read a row that widens id and one that widens name.
C15_Witness ==
    /\ op = "filter"
    /\ pc = "filter_print"
    /\ Len(ScannedRows) = 2
    /\ columnWidths = << 3, 20, 11 >>

\* The sum of a sequence of numbers.
RECURSIVE Sum(_)
Sum(seq) == IF seq = <<>> THEN 0 ELSE Head(seq) + Sum(Tail(seq))

\* Where column k starts in a printed line: after the columns before it and
\* their separators.
Offset(k) == Sum(SubSeq(columnWidths, 1, k - 1)) + 3 * (k - 1)

\* The printed line shows the string in full where column k stands.
ShowsInFull(line, k, str) == SubSeq(line.text, Offset(k) + 1, Offset(k) + Len(str)) = str

\* C18: in View and Filter no header and no cell is longer than the width
\* padRight is given for it, so each is printed in full, and the header line,
\* the divider and every data line have the same length: the sum of the column
\* widths plus 3 for each separator between two columns.
C18_NothingTruncated ==
    screen # <<>> =>
        LET n      == Len(table.Columns)
            length == Sum(columnWidths) + 3 * (n - 1)
        IN  /\ \A k \in 1..n : Len(Spell(table.Columns[k])) <= columnWidths[k]
            /\ \A r \in 1..Len(allRows) : \A k \in 1..n :
                   Len(allRows[r][k]) <= columnWidths[k]
            /\ \A l \in 1..Len(PrintedLines) :
                   PrintedLines[l].kind # "summary" => Len(PrintedLines[l].text) = length
            /\ \A k \in 1..n : ShowsInFull(PrintedLines[1], k, Spell(table.Columns[k]))
            /\ \A r \in 1..Len(allRows) : \A k \in 1..n :
                   ShowsInFull(PrintedLines[r + 2], k, allRows[r][k])

\* A view printed a cell that is exactly as long as its column is wide.
C18_Witness ==
    /\ op = "view"
    /\ screen # <<>>
    /\ Len(allRows) = 2
    /\ \E r \in 1..2 : Len(allRows[r][2]) = columnWidths[2] /\ columnWidths[2] = 20

\* C16: in InsertRelated the statements of a record run in the order first
\* insert (with RETURNING id), then second insert: a second insert is sent only
\* after the first insert of the same record succeeded and returned its id, a
\* failed first insert is the record's only statement and ends the operation,
\* and the summary is printed only after recordCount rows went into each table.
C16_FirstThenSecond ==
    op = "related" =>
        /\ Len(stmts) <= 2
        /\ stmts # <<>> =>
               /\ stmts[1].call = "QueryRow"
               /\ stmts[1].sql = InsertQuery(table1) \o << Kw("RETURNING"), Kw("id") >>
               /\ ~stmts[1].ok => (Len(stmts) = 1 /\ pc = "menu")
        /\ Len(stmts) = 2 =>
               /\ stmts[2].call = "Exec"
               /\ stmts[2].sql[2] = Nm(table2.Name)
               /\ stmts[1].ok
               /\ stmts[1].id >= 1
               /\ insertedID = stmts[1].id
        /\ (\E m \in 1..Len(out) : out[m] = "TotalRelatedAdded") =>
               /\ pc = "menu"
               /\ i = count
               /\ Cardinality(RowsOf(table1.Name)) = count
               /\ Cardinality(RowsOf(table2.Name)) = count
               /\ Len(rows) = 2 * count
               /\ \A r \in 1..Len(rows) :
                      rows[r].table = IF r % 2 = 1 THEN table1.Name ELSE table2.Name

\* A batch of two records went through to the summary.
C16_Witness ==
    /\ op = "related"
    /\ pc = "menu"
    /\ count = 2
    /\ out # <<>>
    /\ Last(out) = "TotalRelatedAdded"
    /\ Len(rows) = 4

\* The messages that report a failed database call.
ExecutionErrors ==
    { "ErrViewQuery", "ErrFilter", "ErrUpdate", "ErrInsert", "ErrInsertFirst",
      "ErrInsertSecond" }

\* The step made a database call that failed.
DbCallFailed == Len(stmts') = Len(stmts) + 1 /\ ~Last(stmts').ok

\* C17: whenever a database call of a menu operation fails, the failure is
\* reported as an execution error and control is at a prompt: the process has
\* not crashed.
C17_DbFailureReported ==
    [][DbCallFailed =>
           /\ exitCode' = -1
           /\ pc' \in { "menu", "view_select" }
           /\ out' # <<>>
           /\ Last(out') \in ExecutionErrors]_vars

\* C19: the column named in the SET clause of every UPDATE sent is a column of
\* the selected table other than id.
C19_UpdateNeverSetsId ==
    \A c \in 1..Len(stmts) :
        stmts[c].sql[1] = Kw("UPDATE") =>
            /\ stmts[c].sql[2] = Nm(table.Name)
            /\ stmts[c].sql[3] = Kw("SET")
            /\ stmts[c].sql[4].k = "name"
            /\ stmts[c].sql[4].name # "id"
            /\ \E k \in 2..Len(table.Columns) : stmts[c].sql[4].name = table.Columns[k]

\* An UPDATE went out for the first column offered.
C19_Witness ==
    /\ op = "update"
    /\ Len(stmts) = 1
    /\ stmts[1].sql[1] = Kw("UPDATE")
    /\ ReadsAt("update_column")[1].line = << "1" >>

\* The names listed between the first pair of parentheses of an INSERT.
ListedColumns(sql) ==
    LET close == CHOOSE k \in 1..Len(sql) :
                     sql[k] = Kw(")") /\ \A j \in 1..(k - 1) : sql[j] # Kw(")")
    IN  SelectSeq(SubSeq(sql, 4, close - 1), LAMBDA tok : tok # Kw(","))

\* C20: each statement Insert sends lists exactly the non-id columns of the
\* table in descriptor order, and its i-th parameter is the value typed for
\* the i-th listed column of that same record.
C20_InsertColumnsAndValues ==
    (op = "insert" /\ stmts # <<>>) =>
        LET reads == ReadsAt("insert_value")
            n     == Len(table.Columns) - 1
        IN  /\ Len(stmts) = 1
            /\ stmts[1].sql[1] = Kw("INSERT INTO")
            /\ stmts[1].sql[2] = Nm(table.Name)
            /\ stmts[1].sql[3] = Kw("(")
            /\ ListedColumns(stmts[1].sql) = [k \in 1..n |-> Nm(table.Columns[k + 1])]
            /\ Len(stmts[1].args) = n
            /\ Len(reads) = n
            /\ \A k \in 1..n :
                   /\ reads[k].column = table.Columns[k + 1]
                   /\ stmts[1].args[k] = StrArg(TrimSpace(reads[k].line))

\* The second record of a batch was sent with other values than the first.
C20_Witness ==
    /\ op = "insert"
    /\ i = 2
    /\ Len(stmts) = 1
    /\ stmts[1].ok
    /\ Len(rows) = 2
    /\ stmts[1].args[1] = StrArg(NumberLine)

\* C23: for each configured relation the resolved foreign-key column is not
\* empty and is a non-id column of the second table, so every second insert
\* has exactly one parameter filled in automatically, and the operator is asked
\* for the values of the other columns: the number of columns of the second
\* table less two.
C23_OneAutomaticParameter ==
    (op = "related" /\ pc \in { "related_second", "related_exec2" }) =>
        LET columns == Tail(table2.Columns)
            typed   == ReadsAt("related_second")
        IN  /\ foreignKeyColumn # ""
            /\ foreignKeyColumn # "id"
            /\ Cardinality({ k \in 1..Len(columns) : columns[k] = foreignKeyColumn }) = 1
            /\ Cardinality({ k \in 1..Len(values2) : values2[k].t = "int" }) <= 1
            /\ Len(typed) <= Len(table2.Columns) - 2
            /\ pc = "related_exec2" =>
                   /\ Len(values2) = Len(table2.Columns) - 1
                   /\ Cardinality({ k \in 1..Len(values2) : values2[k].t = "int" }) = 1
                   /\ values2[Position(foreignKeyColumn, columns)].t = "int"
                   /\ Len(typed) = Len(table2.Columns) - 2

\* The second insert of components and stock is ready: one id, two typed values.
C23_Witness ==
    /\ op = "related"
    /\ pc = "related_exec2"
    /\ table2.Name = "stock"
    /\ Len(values2) = 3
    /\ Len(ReadsAt("related_second")) = 2

\* The messages that end an Insert batch at one of its records.
InsertErrors == ValidationErrors \cup { "ErrInsert" }

\* C24: in Insert a record's statement is sent only after all of its values
\* were read and accepted; the rows inserted are those of the records before
\* the one in progress; a record that fails (a rejected value, or its INSERT)
\* ends the batch with the rows of the records before it and no total; and the
\* total is printed only after all n inserts succeeded.
C24_InsertBatch ==
    (op = "insert" /\ table # NoTable) =>
        LET typed == ReadsAt("insert_value")
            n     == Len(table.Columns) - 1
            done  == Len(stmts) = 1 /\ stmts[1].ok
        IN  /\ Len(stmts) <= 1
            /\ stmts # <<>> =>
                   /\ Len(typed) = n
                   /\ \A k \in 1..n :
                          /\ ~Unacceptable(typed[k].line)
                          /\ typed[k].column \in NumericColumns
                                 => IsInteger(TrimSpace(typed[k].line))
            /\ Len(rows) = i
            /\ \A r \in 1..Len(rows) : rows[r] = Row(table.Name, r)
            /\ (out # <<>> /\ Last(out) \in InsertErrors) =>
                   /\ pc = "menu"
                   /\ i < count
                   /\ ~done
                   /\ Last(out) = "ErrInsert" <=> stmts # <<>>
                   /\ \A m \in 1..Len(out) : out[m] # "TotalAdded"
            /\ (\E m \in 1..Len(out) : out[m] = "TotalAdded") =>
                   /\ pc = "menu"
                   /\ i = count
                   /\ Len(rows) = count
                   /\ \A m \in 1..Len(out) : out[m] \notin InsertErrors

\* The INSERT of the second record failed after the first record went in.
C24_Witness ==
    /\ op = "insert"
    /\ pc = "menu"
    /\ count = 2
    /\ i = 1
    /\ Len(rows) = 1
    /\ Len(stmts) = 1
    /\ ~stmts[1].ok
    /\ Last(out) = "ErrInsert"

\* Whether the table has a column of that name.
HasColumn(t, column) == \E k \in 1..Len(t.Columns) : t.Columns[k] = column

\* The first column of the table, in declared order, that is not id.
FallbackColumn(t) ==
    LET others == { k \in 1..Len(t.Columns) : t.Columns[k] # "id" }
    IN  IF others = {} THEN ""
        ELSE t.Columns[CHOOSE k \in others : \A m \in others : k <= m]

\* The three-step precedence: rule 1, else rule 2, else the fallback.
PrecedenceColumn(first, second) ==
    IF /\ Contains(Spell(second.Name), Spell("stock"))
       /\ first.Name = "components"
       /\ HasColumn(second, "component_id")
    THEN "component_id"
    ELSE IF /\ Contains(Spell(second.Name), Spell("components"))
            /\ first.Name = "categories"
            /\ HasColumn(second, "category_id")
    THEN "category_id"
    ELSE IF /\ Contains(Spell(second.Name), Spell("components"))
            /\ first.Name = "manufacturers"
            /\ HasColumn(second, "manufacturer_id")
    THEN "manufacturer_id"
    ELSE FallbackColumn(second)

\* C21: for every ordered pair (first, second) of the four catalog tables the
\* column that the column scan of insertRelatedData chooses is the column of
\* the three-step precedence: rule 1 (second name contains stock, first is
\* components, component_id present), else rule 2 (second name contains
\* components, with categories and category_id or manufacturers and
\* manufacturer_id), else the first column of the second table that is not id.
C21_ScanIsPrecedence ==
    pc # "related_resolve" =>
        /\ foreignKeyColumn = PrecedenceColumn(table1, table2)
        /\ foreignKeyColumn # ""

\* A pair outside the configured relations, resolved by the fallback, with the
\* resolved column filled in by the second table's loop.
C21_Witness ==
    /\ pc \in { "related_second", "related_exec2" }
    /\ table1.Name = "stock"
    /\ table2.Name = "manufacturers"
    /\ foreignKeyColumn = "name"
    /\ values2 # <<>>
    /\ values2[1] = IntArg(insertedID)

\* Whether a text has the error keyword, whatever the case of its letters.
HasErrorKeyword(text) ==
    \E k \in 0..(Len(text) - Len(ErrorKeyword)) :
        \A j \in 1..Len(ErrorKeyword) : ToLowerChar(text[k + j]) = ErrorKeyword[j]

\* The routine messages that announce a statement about to be executed.
ExecutingFormats ==
    { "ViewExecuting", "FilterExecuting", "UpdateExecuting", "InsertExecuting",
      "FirstExecuting", "SecondExecuting" }

\* The messages of a log that announce a statement.
ExecutingMessages(log) == SelectSeq(log, LAMBDA m : m.format \in ExecutingFormats)

\* The messages on the console are those of the log file, in order, whose text
\* has the error keyword.
C22_EchoedHaveKeyword ==
    console = SelectSeq(logFile, LAMBDA m : HasErrorKeyword(Text(m)))

\* An announcement on the console reports a typed value that has the keyword.
C22_EchoedAnnouncementQuotesKeyword ==
    \A k \in 1..Len(console) :
        console[k].format \in ExecutingFormats =>
            \E a \in 1..Len(console[k].args) :
                /\ console[k].args[a].v = "values"
                /\ \E n \in 1..Len(console[k].args[a].x) :
                       /\ console[k].args[a].x[n].t = "string"
                       /\ HasErrorKeyword(console[k].args[a].x[n].s)

\* C22: every message given to logToFileAndScreen is in the log file, it is
\* on the console as well if and only if its text has the error keyword in any
\* case of letters, and a message that announces a statement is never on the
\* console, whatever parameter values it reports.
C22_OnlyErrorsEchoed ==
    /\ C22_EchoedHaveKeyword
    /\ ExecutingMessages(console) = <<>>

\* A filter whose only value is a number: its announcement is in the log file
\* and not on the console.
C22_Witness ==
    /\ op = "filter"
    /\ pc = "filter_rows"
    /\ Len(logFile) = 1
    /\ logFile[1].format = "FilterExecuting"
    /\ console = <<>>

====
